---- MODULE Spec2Model ----
(***************************************************************************)
(* Model of the trade simulator of src/backtester.py                       *)
(* (Backtester._backtest_stock and _calculate_performance_metrics).        *)
(*                                                                         *)
(* A signal is a record [type, date, price]; its date is the string that   *)
(* the signal generator's strftime('%Y-%m-%d') produces, modelled as the   *)
(* sequence of its character codes, so that sorted() compares strings and  *)
(* strptime() parses them, as in the code.                                 *)
(***************************************************************************)
EXTENDS Integers, Sequences, FiniteSets, TLC

VARIABLES
    pc,              \* "idle" | "loop" | "done": position in _backtest_stock
    signals,         \* the `signals` argument of the call in progress
    sorted_signals,  \* backtester.py:39
    idx,             \* index of the next element of sorted_signals (the for loop)
    trades,          \* backtester.py:33
    position,        \* backtester.py:34  "None" | "LONG"
    entry_price,     \* backtester.py:35
    entry_date,      \* backtester.py:36
    result,          \* the value _backtest_stock returned
    run,             \* 1: first call on an input, 2: a second call that follows it
    arg,             \* what the second call was given: "same" | "sorted"
    first_signals,   \* the input of the first call
    first_trades,    \* the trade list of the first call
    closes,          \* history: number of LONG -> FLAT transitions of this call
    opener,          \* history: the signal that opened the current position
    phase,           \* position in the aggregation and batch operations
    m_trades,        \* the `trades` argument of _calculate_performance_metrics
    m_result,        \* the value _calculate_performance_metrics returned
    indicators_data, \* backtester.py:17  symbol -> "data" | "None"
    signals_data,    \* backtester.py:17  symbol -> signal list
    rb_keys,         \* indicators_data.keys(), in iteration order
    rb_i,            \* index of the next key of the loop at backtester.py:21
    backtest_results,\* backtester.py:19, and the argument of get_portfolio_summary
    portfolio,       \* the value get_portfolio_summary returned
    calls,           \* history: the _backtest_stock calls made and what they returned
    threads,         \* symbol -> [pc, result] of its simulation pass, when passes interleave
    frames,          \* call frame -> the locals of _backtest_stock (backtester.py:33-39)
    heap,            \* address -> list, dict or DataFrame object
    br_ref,          \* run_backtest's mapping, every trade list held by its address
    agg,             \* the call of get_portfolio_summary or export_trades_to_dataframe in progress
    bars,            \* the rows of the indicator frame of one symbol
    generated,       \* what the two signal generators returned for bars
    p_pc,            \* position in run_complete_analysis (main.py:43-108)
    p_faults,        \* the steps in which a collaborator raises, chosen by the environment
    p_log,           \* history: the steps run_complete_analysis has completed
    p_ret,           \* what run_complete_analysis returned: "None" | "True" | "False"
    stock_data,      \* main.py:50
    current_signals  \* main.py:75

vars == <<pc, signals, sorted_signals, idx, trades, position, entry_price,
          entry_date, result, run, arg, first_signals, first_trades, closes,
          opener, phase, m_trades, m_result, indicators_data, signals_data,
          rb_keys, rb_i, backtest_results, portfolio, calls, threads, frames,
          heap, br_ref, agg, bars, generated, p_pc, p_faults, p_log, p_ret,
          stock_data, current_signals>>

\* the state of the aggregation and batch operations
aggvars == <<phase, m_trades, m_result, indicators_data, signals_data, rb_keys,
             rb_i, backtest_results, portfolio>>

\* the state of the operations modelled further down
snapvars == <<calls>>

parvars == <<threads, frames>>

heapvars == <<heap, br_ref, agg>>

genvars == <<bars, generated>>

pipevars == <<p_pc, p_faults, p_log, p_ret, stock_data, current_signals>>

extvars == <<snapvars, parvars, heapvars, genvars, pipevars>>

\* the state of one _backtest_stock call
simvars == <<pc, signals, sorted_signals, idx, trades, position, entry_price,
             entry_date, result, run, arg, first_signals, first_trades, closes,
             opener>>

----------------------------------------------------------------------------
(* Bounds and input domain *)

MaxLen == 3

Dash == 45
Zero == 48

Digit(n) == Zero + n

TwoDigits(n) == <<Digit(n \div 10), Digit(n % 10)>>

FourDigits(n) ==
    <<Digit(n \div 1000), Digit((n \div 100) % 10), Digit((n \div 10) % 10),
      Digit(n % 10)>>

\* current.name.strftime('%Y-%m-%d') for the calendar date <<y, m, d>>
strftime(cal) ==
    FourDigits(cal[1]) \o <<Dash>> \o TwoDigits(cal[2]) \o <<Dash>> \o TwoDigits(cal[3])

CalDates == {<<2023, 1, 1>>, <<2023, 1, 15>>, <<2023, 2, 1>>}

Dates == {strftime(c) : c \in CalDates}

BuyPrices == {90, 100}

SellPrices == {90, 110, 120}

\* the signals of the input domain: every date, entries at two prices, exits
\* below, at and above them
Signal ==
    [type : {"BUY"}, date : Dates, price : BuyPrices]
        \cup [type : {"SELL"}, date : Dates, price : SellPrices]

\* a second domain: longer lists at one price
MaxLenLong == 4

SignalLong == [type : {"BUY", "SELL"}, date : Dates, price : {100}]

RECURSIVE SeqsUpTo(_, _)
SeqsUpTo(S, n) ==
    IF n = 0 THEN {<<>>}
    ELSE LET shorter == SeqsUpTo(S, n - 1)
         IN  shorter \cup {Append(s, x) : s \in {t \in shorter : Len(t) = n - 1}, x \in S}

Inputs == SeqsUpTo(Signal, MaxLen)

InputsLong == SeqsUpTo(SignalLong, MaxLenLong)

CalLess(a, b) ==
    \/ a[1] < b[1]
    \/ a[1] = b[1] /\ a[2] < b[2]
    \/ a[1] = b[1] /\ a[2] = b[2] /\ a[3] < b[3]

\* the signals of s in calendar order, those of one day in their order in s
RECURSIVE ByCalendar(_, _)
ByCalendar(s, cals) ==
    IF cals = {} THEN <<>>
    ELSE LET c == CHOOSE x \in cals : \A o \in cals : ~CalLess(o, x)
         IN  SelectSeq(s, LAMBDA x : x.date = strftime(c)) \o ByCalendar(s, cals \ {c})

DateSorted(s) == ByCalendar(s, CalDates)

----------------------------------------------------------------------------
(* Python values and library functions used by the simulator *)

None == [kind |-> "None"]

NoDate == <<>>

NoSignal == [type |-> "None", date |-> NoDate, price |-> 0]

\* str.__lt__: lexicographic comparison by character code
RECURSIVE StrLess(_, _)
StrLess(a, b) ==
    IF b = <<>> THEN FALSE
    ELSE IF a = <<>> THEN TRUE
    ELSE IF Head(a) # Head(b) THEN Head(a) < Head(b)
    ELSE StrLess(Tail(a), Tail(b))

\* Insert x behind every element whose key is not greater than x's key
RECURSIVE InsertUnstable(_, _)
InsertUnstable(s, x) ==
    IF s = <<>> THEN <<x>>
    ELSE IF StrLess(x.date, Head(s).date) \/ x.date = Head(s).date THEN <<x>> \o s
    ELSE <<Head(s)>> \o InsertUnstable(Tail(s), x)

RECURSIVE Insert(_, _)
Insert(s, x) ==
    IF s = <<>> THEN <<x>>
    ELSE IF StrLess(x.date, Head(s).date) THEN <<x>> \o s
    ELSE <<Head(s)>> \o Insert(Tail(s), x)

RECURSIVE StableSort(_)
StableSort(s) ==
    IF s = <<>> THEN <<>>
    ELSE Insert(StableSort(SubSeq(s, 1, Len(s) - 1)), s[Len(s)])

RECURSIVE Reverse(_)
Reverse(s) == IF s = <<>> THEN <<>> ELSE Append(Reverse(Tail(s)), Head(s))

sortedUnsorted(s) == s

sortedDescending(s) == Reverse(StableSort(s))

\* sorted(signals, key=lambda x: x['date'])
sorted(s) == StableSort(s)

Num(s, i) == s[i] - Zero

IsLeap(y) == y % 4 = 0 /\ (y % 100 # 0 \/ y % 400 = 0)

DaysInMonth(y, m) ==
    IF m = 2 THEN (IF IsLeap(y) THEN 29 ELSE 28)
    ELSE IF m \in {4, 6, 9, 11} THEN 30 ELSE 31

RECURSIVE DaysBeforeMonth(_, _)
DaysBeforeMonth(y, m) ==
    IF m = 1 THEN 0 ELSE DaysBeforeMonth(y, m - 1) + DaysInMonth(y, m - 1)

DaysBeforeYear(y) ==
    (y - 1) * 365 + ((y - 1) \div 4) - ((y - 1) \div 100) + ((y - 1) \div 400)

\* datetime.strptime(s, '%Y-%m-%d'), as the proleptic Gregorian ordinal
strptime(s) ==
    LET y == Num(s, 1) * 1000 + Num(s, 2) * 100 + Num(s, 3) * 10 + Num(s, 4)
        m == Num(s, 6) * 10 + Num(s, 7)
        d == Num(s, 9) * 10 + Num(s, 10)
    IN  DaysBeforeYear(y) + DaysBeforeMonth(y, m) + d

----------------------------------------------------------------------------
(* _backtest_stock *)

Symbol == "SYM"

MakeTradeSwapped(sym, e_price, e_date, signal) ==
    [symbol |-> sym, entry_date |-> e_date, exit_date |-> signal.date,
     entry_price |-> e_price, exit_price |-> signal.price,
     pnl |-> e_price - signal.price,
     pnl_pct |-> [num |-> (e_price - signal.price) * 100, den |-> e_price],
     holding_days |-> strptime(signal.date) - strptime(e_date),
     is_win |-> (e_price - signal.price) > 0]

MakeTradeDaysSwapped(sym, e_price, e_date, signal) ==
    [symbol |-> sym, entry_date |-> e_date, exit_date |-> signal.date,
     entry_price |-> e_price, exit_price |-> signal.price,
     pnl |-> signal.price - e_price,
     pnl_pct |-> [num |-> (signal.price - e_price) * 100, den |-> e_price],
     holding_days |-> strptime(e_date) - strptime(signal.date),
     is_win |-> (signal.price - e_price) > 0]

MakeTradeCarriesSnapshot(sym, e_price, e_date, signal) ==
    [symbol |-> sym, entry_date |-> e_date, exit_date |-> signal.date,
     entry_price |-> e_price, exit_price |-> signal.price,
     pnl |-> signal.price - e_price,
     pnl_pct |-> [num |-> (signal.price - e_price) * 100, den |-> e_price],
     holding_days |-> strptime(signal.date) - strptime(e_date),
     is_win |-> (signal.price - e_price) > 0,
     rsi |-> signal.rsi]

MakeTradeZeroWins(sym, e_price, e_date, signal) ==
    [symbol |-> sym, entry_date |-> e_date, exit_date |-> signal.date,
     entry_price |-> e_price, exit_price |-> signal.price,
     pnl |-> signal.price - e_price,
     pnl_pct |-> [num |-> (signal.price - e_price) * 100, den |-> e_price],
     holding_days |-> strptime(signal.date) - strptime(e_date),
     is_win |-> (signal.price - e_price) >= 0]

\* backtester.py:51-70; pnl_pct is the exact quotient num / den
MakeTrade(sym, e_price, e_date, signal) ==
    LET exit_price == signal.price
        exit_date == signal.date
        pnl == exit_price - e_price
    IN  [symbol |-> sym, entry_date |-> e_date, exit_date |-> exit_date,
         entry_price |-> e_price, exit_price |-> exit_price,
         pnl |-> pnl,
         pnl_pct |-> [num |-> pnl * 100, den |-> e_price],
         holding_days |-> strptime(exit_date) - strptime(e_date),
         is_win |-> pnl > 0]

\* exact arithmetic on quotients [num, den], kept in lowest terms
Abs(n) == IF n < 0 THEN 0 - n ELSE n

RECURSIVE GCD(_, _)
GCD(a, b) == IF b = 0 THEN a ELSE GCD(b, a % b)

\* a zero denominator stands for the float results of a division by zero:
\* 0/0 is nan
NaN == [num |-> 0, den |-> 0]

Rat(n, d) ==
    IF d = 0 THEN [num |-> n, den |-> 0]
    ELSE LET g == GCD(Abs(n), Abs(d))
             sgn == IF d < 0 THEN 0 - 1 ELSE 1
         IN  [num |-> sgn * (n \div g), den |-> sgn * (d \div g)]

RatZero == [num |-> 0, den |-> 1]

\* common factors are divided out before multiplying, to keep the integers small
Common(m, n) == LET g == GCD(Abs(m), Abs(n)) IN IF g = 0 THEN 1 ELSE g

RatAdd(a, b) ==
    LET g == Common(a.den, b.den)
    IN  Rat(a.num * (b.den \div g) + b.num * (a.den \div g), (a.den \div g) * b.den)

RatSub(a, b) == RatAdd(a, [num |-> 0 - b.num, den |-> b.den])

RatMul(a, b) ==
    LET g1 == Common(a.num, b.den)
        g2 == Common(b.num, a.den)
    IN  Rat((a.num \div g1) * (b.num \div g2), (a.den \div g2) * (b.den \div g1))

RatInv(a) == Rat(a.den, a.num)

RatEq(a, b) == a.num * b.den = b.num * a.den

RECURSIVE SumPnl(_)
SumPnl(ts) == IF ts = <<>> THEN 0 ELSE ts[1].pnl + SumPnl(Tail(ts))

\* sum(...) over a list of integers
RECURSIVE SumInt(_)
SumInt(xs) == IF xs = <<>> THEN 0 ELSE SumInt(SubSeq(xs, 1, Len(xs) - 1)) + xs[Len(xs)]

\* sum(...) over a list of quotients
RECURSIVE SumRat(_)
SumRat(xs) ==
    IF xs = <<>> THEN RatZero
    ELSE RatAdd(SumRat(SubSeq(xs, 1, Len(xs) - 1)), xs[Len(xs)])

\* np.mean of a list of integers; nan for the empty list
MeanInt(xs) == Rat(SumInt(xs), Len(xs))

\* np.mean of a non-empty list of quotients
MeanRat(xs) == RatMul(SumRat(xs), Rat(1, Len(xs)))

\* np.std squared: the mean of the squared deviations from the mean
Variance(xs) ==
    LET mean == MeanRat(xs)
        dev2 == [i \in 1..Len(xs) |->
                    RatMul(RatSub(xs[i], mean), RatSub(xs[i], mean))]
    IN  MeanRat(dev2)

\* max(...) and min(...) of a non-empty list
MaxOf(xs) == CHOOSE m \in {xs[i] : i \in 1..Len(xs)} : \A i \in 1..Len(xs) : xs[i] <= m

MinOf(xs) == CHOOSE m \in {xs[i] : i \in 1..Len(xs)} : \A i \in 1..Len(xs) : xs[i] >= m

Pnls(ts) == [i \in 1..Len(ts) |-> ts[i].pnl]

WinPnls(ts) == Pnls(SelectSeq(ts, LAMBDA t : t.is_win))

LossPnls(ts) == Pnls(SelectSeq(ts, LAMBDA t : ~t.is_win))

CumulativeReturnsPerTrade(ts) == [k \in 1..Len(ts) |-> ts[k].pnl]

\* backtester.py:111-116: the running total, appended after every trade
RECURSIVE CumulativeLoop(_, _, _)
CumulativeLoop(cumulative_pnl, cumulative_returns, rest) ==
    IF rest = <<>> THEN cumulative_returns
    ELSE CumulativeLoop(cumulative_pnl + Head(rest).pnl,
                        Append(cumulative_returns, cumulative_pnl + Head(rest).pnl),
                        Tail(rest))

CumulativeReturns(ts) == CumulativeLoop(0, <<>>, ts)

LosingTradesNegativeOnly(ts, winning_trades) ==
    Len(SelectSeq(ts, LAMBDA t : t.pnl < 0))

\* backtester.py:96
LosingTrades(ts, winning_trades) == Len(ts) - winning_trades

AvgLossNegativeOnly(ts, losing_trades) ==
    LET neg == Pnls(SelectSeq(ts, LAMBDA t : t.pnl < 0))
    IN  IF neg # <<>> THEN MeanInt(neg) ELSE RatZero

\* backtester.py:104
AvgLoss(ts, losing_trades) ==
    IF losing_trades > 0 THEN MeanInt(LossPnls(ts)) ELSE RatZero

\* backtester.py:92-132
CalculatePerformanceMetrics(ts) ==
    LET total_trades == Len(ts)
        winning_trades == Len(SelectSeq(ts, LAMBDA t : t.is_win))
        losing_trades == LosingTrades(ts, winning_trades)
    IN  [kind |-> "result",
         total_trades |-> total_trades,
         winning_trades |-> winning_trades,
         losing_trades |-> losing_trades,
         win_rate |-> IF total_trades > 0 THEN Rat(winning_trades * 100, total_trades)
                      ELSE RatZero,
         total_pnl |-> SumInt(Pnls(ts)),
         total_pnl_pct |-> SumRat([i \in 1..Len(ts) |-> ts[i].pnl_pct]),
         avg_win |-> IF winning_trades > 0 THEN MeanInt(WinPnls(ts)) ELSE RatZero,
         avg_loss |-> AvgLoss(ts, losing_trades),
         max_win |-> IF ts # <<>> THEN MaxOf(Pnls(ts)) ELSE 0,
         max_loss |-> IF ts # <<>> THEN MinOf(Pnls(ts)) ELSE 0,
         avg_holding_days |-> MeanInt([i \in 1..Len(ts) |-> ts[i].holding_days]),
         cumulative_returns |-> CumulativeReturns(ts),
         trades |-> ts]

----------------------------------------------------------------------------
(* The call, one action per step of _backtest_stock *)

\* no call in progress
SimIdle ==
    /\ pc = "idle"
    /\ signals = <<>>
    /\ sorted_signals = <<>>
    /\ idx = 1
    /\ trades = <<>>
    /\ position = "None"
    /\ entry_price = 0
    /\ entry_date = NoDate
    /\ result = None
    /\ run = 1
    /\ arg = "same"
    /\ first_signals = <<>>
    /\ first_trades = <<>>
    /\ closes = 0
    /\ opener = NoSignal

EmptyMap == [x \in {} |-> 0]

\* no aggregation or batch in progress
AggIdle ==
    /\ phase = "idle"
    /\ m_trades = <<>>
    /\ m_result = None
    /\ indicators_data = EmptyMap
    /\ signals_data = EmptyMap
    /\ rb_keys = <<>>
    /\ rb_i = 1
    /\ backtest_results = EmptyMap
    /\ portfolio = None

\* none of the further operations in progress
ExtIdle ==
    /\ calls = <<>>
    /\ threads = <<>>
    /\ frames = <<>>
    /\ heap = <<>>
    /\ br_ref = <<>>
    /\ agg = [op |-> "none", pc |-> "none", i |-> 1, j |-> 1, all_trades |-> 0,
              df |-> 0, called |-> {}]
    /\ bars = <<>>
    /\ generated = [main |-> <<>>, stage1 |-> <<>>, done |-> {}]
    /\ p_pc = "idle"
    /\ p_faults = {}
    /\ p_log = <<>>
    /\ p_ret = "None"
    /\ stock_data = <<>>
    /\ current_signals = <<>>

Init == SimIdle /\ AggIdle /\ ExtIdle

BeginKeepsPosition(sigs) ==
    /\ trades' = <<>>
    /\ UNCHANGED <<position, entry_price, entry_date, opener>>
    /\ signals' = sigs
    /\ sorted_signals' = sorted(sigs)
    /\ idx' = 1
    /\ closes' = 0
    /\ pc' = "loop"

\* backtester.py:33-39: the locals of a call and the sorted copy of its input
Begin(sigs) ==
    /\ trades' = <<>>
    /\ position' = "None"
    /\ entry_price' = 0
    /\ entry_date' = NoDate
    /\ signals' = sigs
    /\ sorted_signals' = sorted(sigs)
    /\ idx' = 1
    /\ closes' = 0
    /\ opener' = NoSignal
    /\ pc' = "loop"

\* _backtest_stock(symbol, data, signals) is called on a fresh input
Call(sigs) ==
    /\ pc = "idle"
    /\ Begin(sigs)
    /\ run' = 1
    /\ arg' = "same"
    /\ first_signals' = sigs
    /\ first_trades' = <<>>
    /\ result' = None
    /\ UNCHANGED aggvars
    /\ UNCHANGED extvars

\* the same instance is called a second time on the same signal list
CallAgain ==
    /\ pc = "done"
    /\ run = 1
    /\ Begin(first_signals)
    /\ run' = 2
    /\ arg' = "same"
    /\ result' = None
    /\ UNCHANGED <<first_signals, first_trades>>
    /\ UNCHANGED aggvars
    /\ UNCHANGED extvars

\* the same instance is called a second time, on the date-sorted version of
\* the first call's signal list
CallSorted ==
    /\ pc = "done"
    /\ run = 1
    /\ Begin(DateSorted(first_signals))
    /\ run' = 2
    /\ arg' = "sorted"
    /\ result' = None
    /\ UNCHANGED <<first_signals, first_trades>>
    /\ UNCHANGED aggvars
    /\ UNCHANGED extvars

InLoop == pc = "loop" /\ idx <= Len(sorted_signals)

OpenLongAlways ==
    /\ InLoop
    /\ sorted_signals[idx].type = "BUY"
    /\ position' = "LONG"
    /\ entry_price' = sorted_signals[idx].price
    /\ entry_date' = sorted_signals[idx].date
    /\ opener' = IF position = "None" THEN sorted_signals[idx] ELSE opener
    /\ idx' = idx + 1
    /\ UNCHANGED <<pc, signals, sorted_signals, trades, result, run, arg,
                   first_signals, first_trades, closes>>
    /\ UNCHANGED aggvars
    /\ UNCHANGED extvars

OpenLongAnyType ==
    /\ InLoop
    /\ position = "None"
    /\ position' = "LONG"
    /\ entry_price' = sorted_signals[idx].price
    /\ entry_date' = sorted_signals[idx].date
    /\ opener' = sorted_signals[idx]
    /\ idx' = idx + 1
    /\ UNCHANGED <<pc, signals, sorted_signals, trades, result, run, arg,
                   first_signals, first_trades, closes>>
    /\ UNCHANGED aggvars
    /\ UNCHANGED extvars

\* backtester.py:42-47
OpenLong ==
    /\ InLoop
    /\ sorted_signals[idx].type = "BUY" /\ position = "None"
    /\ position' = "LONG"
    /\ entry_price' = sorted_signals[idx].price
    /\ entry_date' = sorted_signals[idx].date
    /\ opener' = sorted_signals[idx]
    /\ idx' = idx + 1
    /\ UNCHANGED <<pc, signals, sorted_signals, trades, result, run, arg,
                   first_signals, first_trades, closes>>
    /\ UNCHANGED aggvars
    /\ UNCHANGED extvars

CloseLongStaysLong ==
    /\ InLoop
    /\ sorted_signals[idx].type = "SELL" /\ position = "LONG"
    /\ trades' = Append(trades, MakeTrade(Symbol, entry_price, entry_date,
                                          sorted_signals[idx]))
    /\ closes' = closes + 1
    /\ idx' = idx + 1
    /\ UNCHANGED <<pc, signals, sorted_signals, result, run, arg, position,
                   entry_price, entry_date, opener, first_signals, first_trades>>
    /\ UNCHANGED aggvars
    /\ UNCHANGED extvars

\* backtester.py:49-79
CloseLong ==
    /\ InLoop
    /\ sorted_signals[idx].type = "SELL" /\ position = "LONG"
    /\ trades' = Append(trades, MakeTrade(Symbol, entry_price, entry_date,
                                          sorted_signals[idx]))
    /\ position' = "None"
    /\ entry_price' = 0
    /\ entry_date' = NoDate
    /\ opener' = NoSignal
    /\ closes' = closes + 1
    /\ idx' = idx + 1
    /\ UNCHANGED <<pc, signals, sorted_signals, result, run, arg,
                   first_signals, first_trades>>
    /\ UNCHANGED aggvars
    /\ UNCHANGED extvars

\* backtester.py:41-49: neither branch of the if/elif is taken
SkipSignal ==
    /\ InLoop
    /\ ~(sorted_signals[idx].type = "BUY" /\ position = "None")
    /\ ~(sorted_signals[idx].type = "SELL" /\ position = "LONG")
    /\ idx' = idx + 1
    /\ UNCHANGED <<pc, signals, sorted_signals, trades, position, entry_price,
                   entry_date, result, run, arg, first_signals, first_trades,
                   closes, opener>>
    /\ UNCHANGED aggvars
    /\ UNCHANGED extvars

ReturnMarkToMarket ==
    /\ pc = "loop"
    /\ idx > Len(sorted_signals)
    /\ trades' = IF position = "LONG"
                 THEN Append(trades, MakeTrade(Symbol, entry_price, entry_date,
                                               sorted_signals[Len(sorted_signals)]))
                 ELSE trades
    /\ result' = IF trades' # <<>> THEN CalculatePerformanceMetrics(trades') ELSE None
    /\ first_trades' = IF run = 1 THEN trades' ELSE first_trades
    /\ pc' = "done"
    /\ UNCHANGED <<signals, sorted_signals, idx, position, entry_price,
                   entry_date, run, arg, first_signals, closes, opener>>
    /\ UNCHANGED aggvars
    /\ UNCHANGED extvars

\* backtester.py:81-86
Return ==
    /\ pc = "loop"
    /\ idx > Len(sorted_signals)
    /\ result' = IF trades # <<>> THEN CalculatePerformanceMetrics(trades) ELSE None
    /\ first_trades' = IF run = 1 THEN trades ELSE first_trades
    /\ pc' = "done"
    /\ UNCHANGED <<signals, sorted_signals, idx, trades, position, entry_price,
                   entry_date, run, arg, first_signals, closes, opener>>
    /\ UNCHANGED aggvars
    /\ UNCHANGED extvars

\* the caller hands over any signal list of the input domain
CallAny == pc = "idle" /\ \E sigs \in Inputs : Call(sigs)

\* the caller hands over a longer signal list of the second domain
CallAnyLong == pc = "idle" /\ \E sigs \in InputsLong : Call(sigs)

Next ==
    \/ CallAny
    \/ CallAgain
    \/ CallSorted
    \/ OpenLong
    \/ CloseLong
    \/ SkipSignal
    \/ Return

Spec == Init /\ [][Next]_vars

NextLong ==
    \/ CallAnyLong
    \/ CallAgain
    \/ CallSorted
    \/ OpenLong
    \/ CloseLong
    \/ SkipSignal
    \/ Return

SpecLong == Init /\ [][NextLong]_vars

----------------------------------------------------------------------------
(* Vocabulary of the properties *)

\* the signal the loop is about to process, and whether this step processes it
Current == sorted_signals[idx]

Processes == InLoop /\ idx' = idx + 1

Done == pc = "done"

\* the calendar date a date string stands for
Cal(date) == CHOOSE c \in CalDates : strftime(c) = date

MonthLen == <<31, 28, 31, 30, 31, 30, 31, 31, 30, 31, 30, 31>>

NextDay(c) ==
    IF c[3] < MonthLen[c[2]] THEN <<c[1], c[2], c[3] + 1>>
    ELSE IF c[2] < 12 THEN <<c[1], c[2] + 1, 1>>
    ELSE <<c[1] + 1, 1, 1>>

\* number of calendar days from a to b, counted one day at a time
RECURSIVE DaysFrom(_, _)
DaysFrom(a, b) ==
    IF a = b THEN 0
    ELSE IF CalLess(b, a) THEN 0 - DaysFrom(b, a)
    ELSE 1 + DaysFrom(NextDay(a), b)

Sig(t, c, p) == [type |-> t, date |-> strftime(c), price |-> p]

D1 == <<2023, 1, 1>>
D2 == <<2023, 1, 15>>
D3 == <<2023, 2, 1>>

----------------------------------------------------------------------------
(* C1 *)

C1_Step ==
    Processes =>
        IF Current.type = "BUY" /\ position = "None"
        THEN /\ position' = "LONG"
             /\ entry_price' = Current.price
             /\ entry_date' = Current.date
             /\ trades' = trades
        ELSE IF Current.type = "SELL" /\ position = "LONG"
        THEN /\ position' = "None"
             /\ Len(trades') = Len(trades) + 1
             /\ SubSeq(trades', 1, Len(trades)) = trades
        ELSE UNCHANGED <<position, entry_price, entry_date, trades>>

C1_State ==
    /\ position \in {"None", "LONG"}
    /\ (pc = "loop" /\ idx = 1) => position = "None"
    /\ position = "None" => entry_price = 0 /\ entry_date = NoDate

\* C1: while _backtest_stock walks the sorted signals the position is FLAT
\* (None) or LONG and starts FLAT; a BUY while FLAT goes LONG, records the
\* entry and emits nothing; a SELL while LONG goes FLAT and appends exactly
\* one trade; every other pair leaves position, entry and trades unchanged.
C1_PositionStateMachine == [](C1_State) /\ [][C1_Step]_vars

\* a call that opened, closed and also ignored a signal
C1_Witness == Done /\ closes >= 1 /\ Len(sorted_signals) = 3

----------------------------------------------------------------------------
(* C2 *)

C2_Scenario == <<Sig("BUY", D1, 100), Sig("BUY", D2, 90), Sig("SELL", D3, 110)>>

C2_Step ==
    (Processes /\ Current.type = "BUY" /\ position = "LONG") =>
        UNCHANGED <<position, entry_price, entry_date, trades>>

C2_Result ==
    (Done /\ signals = C2_Scenario) =>
        /\ Len(trades) = 1
        /\ trades[1].entry_price = 100
        /\ trades[1].exit_price = 110

\* C2: a BUY processed while LONG is discarded: the entry keeps the values of
\* the opening BUY and no trade is emitted; [BUY@100 D1, BUY@90 D2,
\* SELL@110 D3] gives exactly one trade, entering at 100 and leaving at 110.
C2_BuyWhileLongDiscarded == [](C2_Result) /\ [][C2_Step]_vars

\* the scenario has run to its end
C2_Witness == Done /\ signals = C2_Scenario /\ Len(trades) = 1

----------------------------------------------------------------------------
(* C3 *)

C3_Step ==
    (Processes /\ Current.type = "SELL" /\ position = "None") =>
        /\ trades' = trades
        /\ position' = "None"

C3_Result ==
    (Done /\ \A i \in 1..Len(signals) : signals[i].type = "SELL") =>
        /\ trades = <<>>
        /\ position = "None"

\* C3: a SELL processed while FLAT emits no trade and leaves the position
\* FLAT; a list of SELLs alone ends FLAT with no trade.
C3_SellWhileFlatIgnored == [](C3_Result) /\ [][C3_Step]_vars

\* a SELL has just been processed from FLAT: no trade came of it
C3_Witness ==
    /\ pc = "loop"
    /\ idx > 1
    /\ sorted_signals[idx - 1].type = "SELL"
    /\ trades = <<>>
    /\ position = "None"

----------------------------------------------------------------------------
(* C4 *)

C4_Scenario == <<Sig("BUY", D1, 100), Sig("SELL", D2, 120)>>

C4_Step ==
    (Processes /\ Current.type = "SELL" /\ position = "LONG") =>
        /\ Len(trades') = Len(trades) + 1
        /\ LET t == trades'[Len(trades')]
           IN  /\ t.entry_price = opener.price
               /\ t.entry_date = opener.date
               /\ t.exit_price = Current.price
               /\ t.exit_date = Current.date
               /\ t.pnl = Current.price - opener.price
               /\ t.pnl_pct.den # 0
               /\ t.pnl_pct.num * opener.price = t.pnl * 100 * t.pnl_pct.den
               /\ t.holding_days = DaysFrom(Cal(opener.date), Cal(Current.date))
               /\ t.is_win = (t.pnl > 0)

C4_Result ==
    (Done /\ signals = C4_Scenario) =>
        /\ Len(trades) = 1
        /\ trades[1].pnl = 20
        /\ trades[1].pnl_pct.num = 20 * trades[1].pnl_pct.den
        /\ trades[1].holding_days = 14
        /\ trades[1].is_win = TRUE

\* C4: a SELL processed while LONG emits exactly one trade, whose entry is the
\* one recorded at the opening BUY and whose exit is the SELL's, with
\* pnl = exit - entry, pnl_pct = pnl / entry * 100, holding_days the calendar
\* days from entry to exit and is_win = (pnl > 0); [BUY@100 2023-01-01,
\* SELL@120 2023-01-15] gives pnl 20, pnl_pct 20, 14 days, a win.
C4_SellWhileLongEmitsTrade == [](C4_Result) /\ [][C4_Step]_vars

\* the scenario has run to its end and closed its trade
C4_Witness == Done /\ signals = C4_Scenario /\ Len(trades) = 1

----------------------------------------------------------------------------
(* C5 *)

C5_Result ==
    Done =>
        /\ Len(trades) = closes
        /\ (closes = 0) => (result = None)
        /\ (closes > 0) => (result # None /\ result.trades = trades
                              /\ result.total_trades = closes)
        /\ (\A i \in 1..Len(signals) : signals[i].type = "BUY") => (result = None)

\* C5: a position still LONG after the last signal contributes no trade: the
\* returned trades are exactly the LONG -> FLAT transitions of the call, and
\* a call that closed nothing (such as a list of BUYs) returns None.
C5_OpenPositionDiscarded == C5_Result

\* a call that closed one trade and ended with a position still open
C5_Witness == Done /\ position = "LONG" /\ closes = 1 /\ Len(trades) = 1

----------------------------------------------------------------------------
(* C6 *)

\* C6: the call on a signal list in any order returns the same trade list as
\* the call on the date-sorted version of that list (by calendar date, signals
\* of one date in their input order).
C6_OrderInsensitive ==
    (Done /\ run = 2 /\ arg = "sorted") => trades = first_trades

\* an unsorted list and its date-sorted version both ran and closed a trade
C6_Witness ==
    /\ Done /\ run = 2 /\ arg = "sorted"
    /\ first_signals # signals
    /\ signals = DateSorted(first_signals)
    /\ first_trades # <<>>

----------------------------------------------------------------------------
(* C7 *)

NonDecreasing(s) ==
    \A i \in 1..(Len(s) - 1) : ~CalLess(Cal(s[i + 1].date), Cal(s[i].date))

OnDate(s, d) == SelectSeq(s, LAMBDA x : x.date = d)

C7_Sorted ==
    (pc # "idle") =>
        /\ NonDecreasing(sorted_signals)
        /\ \A d \in Dates : OnDate(sorted_signals, d) = OnDate(signals, d)

C7_Ties ==
    (Done /\ Len(signals) = 2 /\ signals[1].date = signals[2].date) =>
        /\ (signals[1].type = "BUY" /\ signals[2].type = "SELL") =>
               (Len(trades) = 1 /\ trades[1].holding_days = 0 /\ position = "None")
        /\ (signals[1].type = "SELL" /\ signals[2].type = "BUY") =>
               (trades = <<>> /\ position = "LONG"
                  /\ entry_price = signals[2].price)

\* C7: the signals are processed in date order and signals of the same date
\* in their input order: a same-date BUY then SELL closes a zero-day trade, a
\* same-date SELL then BUY from FLAT leaves a position open.
C7_StableSort == C7_Sorted /\ C7_Ties

\* a same-date BUY then SELL, given after a later signal, closed a zero-day trade
C7_Witness ==
    /\ Done
    /\ Len(signals) = 3
    /\ signals # sorted_signals
    /\ signals[2].date = signals[3].date
    /\ signals[2].type = "BUY" /\ signals[3].type = "SELL"
    /\ Len(trades) = 1 /\ trades[1].holding_days = 0

----------------------------------------------------------------------------
(* C8 *)

C8_Fresh ==
    (pc = "loop" /\ idx = 1) =>
        /\ position = "None"
        /\ entry_price = 0
        /\ entry_date = NoDate
        /\ trades = <<>>

C8_Same ==
    (Done /\ run = 2 /\ arg = "same") => trades = first_trades

\* C8: a second call on the same signal list returns the same trade list as
\* the first: every call starts FLAT, with no entry and no trades.
C8_Idempotent == C8_Fresh /\ C8_Same

\* the second call on a sorted list whose first call closed a trade and ended LONG
C8_Witness ==
    /\ Done /\ run = 2 /\ arg = "same"
    /\ signals = DateSorted(signals)
    /\ position = "LONG"
    /\ first_trades # <<>>

----------------------------------------------------------------------------
(* C9 *)

\* C9: the trade list is in closing order: the exit date of a trade is not
\* later than the exit date of the trade after it.
C9_TradesInExitOrder ==
    \A i \in 1..(Len(trades) - 1) :
        ~CalLess(Cal(trades[i + 1].exit_date), Cal(trades[i].exit_date))

\* two trades with different exit dates came out of an unsorted list
C9_Witness ==
    /\ Done
    /\ signals # sorted_signals
    /\ Len(trades) = 2
    /\ trades[1].exit_date # trades[2].exit_date

----------------------------------------------------------------------------
(* C10 *)

\* C10: every emitted trade has holding_days >= 0, whatever the order of the
\* input, and holding_days is 0 exactly when entry and exit are the same date.
C10_HoldingDaysNonNegative ==
    \A i \in 1..Len(trades) :
        /\ trades[i].holding_days >= 0
        /\ (trades[i].holding_days = 0) <=> (trades[i].entry_date = trades[i].exit_date)

\* an unsorted list gave a trade held for some days
C10_Witness ==
    /\ Done
    /\ signals # sorted_signals
    /\ \E i \in 1..Len(trades) : trades[i].holding_days > 0

----------------------------------------------------------------------------
(* _calculate_performance_metrics as an operation of its own *)

MaxTrades == 3

\* closed trades of the simulator: entries on D1 at the two entry prices,
\* exits on D1 or D2 at the three exit prices (pnl -10, 0, 10, 20, 30)
MetricTrades ==
    {MakeTrade(Symbol, bp, strftime(D1), Sig("SELL", c, sp)) :
        bp \in BuyPrices, sp \in SellPrices, c \in {D1, D2}}

\* _backtest_stock calls it with a non-empty list only (backtester.py:82-83)
TradeLists == SeqsUpTo(MetricTrades, MaxTrades) \ {<<>>}

\* backtester.py:83: the call
CallMetrics ==
    /\ phase = "idle"
    /\ \E ts \in TradeLists : m_trades' = ts
    /\ phase' = "metrics"
    /\ UNCHANGED <<m_result, indicators_data, signals_data, rb_keys, rb_i,
                   backtest_results, portfolio>>
    /\ UNCHANGED simvars
    /\ UNCHANGED extvars

\* backtester.py:92-132: the body and the return
ReturnMetrics ==
    /\ phase = "metrics"
    /\ m_result' = CalculatePerformanceMetrics(m_trades)
    /\ phase' = "metrics_done"
    /\ UNCHANGED <<m_trades, indicators_data, signals_data, rb_keys, rb_i,
                   backtest_results, portfolio>>
    /\ UNCHANGED simvars
    /\ UNCHANGED extvars

NextMetrics ==
    \/ CallMetrics
    \/ ReturnMetrics

SpecMetrics == Init /\ [][NextMetrics]_vars

MetricsDone == phase = "metrics_done"

\* the sum of the pnl of the trades of ts at the indices in I
RECURSIVE PnlOver(_, _)
PnlOver(I, ts) ==
    IF I = {} THEN 0
    ELSE LET i == CHOOSE x \in I : TRUE
         IN  ts[i].pnl + PnlOver(I \ {i}, ts)

Winners(ts) == {i \in 1..Len(ts) : ts[i].pnl > 0}

NonWinners(ts) == {i \in 1..Len(ts) : ~(ts[i].pnl > 0)}

----------------------------------------------------------------------------
(* C11 *)

\* C11: for every non-empty trade list, cumulative_returns has the length of
\* the list, its k-th element is the sum of the pnl of the first k trades and
\* its last element equals total_pnl.
C11_CumulativeReturns ==
    MetricsDone =>
        LET cr == m_result.cumulative_returns
        IN  /\ Len(cr) = Len(m_trades)
            /\ \A k \in 1..Len(m_trades) : cr[k] = PnlOver(1..k, m_trades)
            /\ cr[Len(cr)] = m_result.total_pnl

\* three trades, a loss among them, whose running total differs from each pnl
C11_Witness ==
    /\ MetricsDone
    /\ Len(m_trades) = 3
    /\ m_trades[2].pnl < 0
    /\ m_result.cumulative_returns[3] # m_trades[3].pnl
    /\ m_result.cumulative_returns[2] # m_result.cumulative_returns[3]

----------------------------------------------------------------------------
(* C12 *)

\* C12: every SymbolResult has winning_trades + losing_trades = total_trades
\* = len(trades), and win_rate = winning_trades / total_trades * 100, where
\* winning_trades counts the trades with pnl > 0.
C12_CountsAndWinRate ==
    MetricsDone =>
        /\ m_result.total_trades = Len(m_result.trades)
        /\ m_result.trades = m_trades
        /\ m_result.winning_trades = Cardinality(Winners(m_trades))
        /\ m_result.losing_trades = Cardinality(NonWinners(m_trades))
        /\ m_result.winning_trades + m_result.losing_trades = m_result.total_trades
        /\ m_result.win_rate.den > 0
        /\ m_result.win_rate.num * m_result.total_trades
               = m_result.winning_trades * 100 * m_result.win_rate.den

\* a win, a loss and a trade with pnl 0: win_rate is 100/3
C12_Witness ==
    /\ MetricsDone
    /\ m_result.total_trades = 3
    /\ m_result.winning_trades = 1
    /\ \E i \in 1..3 : m_trades[i].pnl = 0
    /\ \E i \in 1..3 : m_trades[i].pnl < 0
    /\ m_result.win_rate = [num |-> 100, den |-> 3]

----------------------------------------------------------------------------
(* C18 *)

IsMeanOver(q, I, ts) ==
    IF I = {} THEN q.num = 0
    ELSE q.den # 0 /\ q.num * Cardinality(I) = PnlOver(I, ts) * q.den

----------------------------------------------------------------------------
(* get_portfolio_summary *)

\* A dict is the sequence of its items, in insertion order.
RECURSIVE AllTrades(_)
AllTrades(br) ==
    IF br = <<>> THEN <<>>
    ELSE AllTrades(SubSeq(br, 1, Len(br) - 1)) \o br[Len(br)].result.trades

Returns(all_trades) == [i \in 1..Len(all_trades) |-> all_trades[i].pnl_pct]

Sign(n) == IF n > 0 THEN 1 ELSE IF n < 0 THEN 0 - 1 ELSE 0

\* A Sharpe ratio mean / std is held as its sign and its square mean^2 / std^2.
SharpeZero == [sign |-> 0, square |-> RatZero]

SharpeRatioUnguarded(returns) ==
    LET mean == MeanRat(returns)
        var == Variance(returns)
    IN  [sign |-> Sign(mean.num),
         square |-> RatMul(RatMul(mean, mean), RatInv(var))]

\* backtester.py:156-157
SharpeRatio(returns) ==
    LET mean == MeanRat(returns)
        var == Variance(returns)
    IN  IF var.num > 0
        THEN [sign |-> Sign(mean.num),
              square |-> RatMul(RatMul(mean, mean), RatInv(var))]
        ELSE SharpeZero

RECURSIVE SumWinRates(_)
SumWinRates(br) ==
    IF br = <<>> THEN RatZero
    ELSE RatAdd(SumWinRates(Tail(br)), br[1].result.win_rate)

PortfolioWinRateOfRates(br, winning_trades, total_trades) ==
    RatMul(SumWinRates(br), Rat(1, Len(br)))

\* backtester.py:152
PortfolioWinRate(br, winning_trades, total_trades) ==
    IF total_trades > 0 THEN Rat(winning_trades * 100, total_trades) ELSE RatZero

\* backtester.py:146-168
Summary(br, all_trades) ==
    LET total_trades == Len(all_trades)
        winning_trades == Len(SelectSeq(all_trades, LAMBDA t : t.is_win))
        total_pnl == SumInt(Pnls(all_trades))
    IN  [kind |-> "portfolio",
         total_trades |-> total_trades,
         winning_trades |-> winning_trades,
         win_rate |-> PortfolioWinRate(br, winning_trades, total_trades),
         total_pnl |-> total_pnl,
         total_pnl_pct |-> SumRat(Returns(all_trades)),
         avg_pnl_per_trade |-> IF total_trades > 0 THEN Rat(total_pnl, total_trades)
                               ELSE RatZero,
         sharpe_ratio |-> SharpeRatio(Returns(all_trades)),
         symbols_traded |-> Len(br)]

ZeroSummary(br) ==
    [kind |-> "portfolio", total_trades |-> 0, winning_trades |-> 0,
     win_rate |-> RatZero, total_pnl |-> 0, total_pnl_pct |-> RatZero,
     avg_pnl_per_trade |-> RatZero, sharpe_ratio |-> SharpeZero,
     symbols_traded |-> Len(br)]

GetPortfolioSummaryZeroFilled(br) ==
    IF br = <<>> THEN None
    ELSE IF AllTrades(br) = <<>> THEN ZeroSummary(br)
    ELSE Summary(br, AllTrades(br))

\* backtester.py:134-168
GetPortfolioSummary(br) ==
    IF br = <<>> THEN None
    ELSE IF AllTrades(br) = <<>> THEN None
    ELSE Summary(br, AllTrades(br))

Symbols == <<"A", "B">>

MaxPfTrades == 3

\* closed trades of one symbol: pnl 0, 20, 30 and -10
PortfolioTrades(sym) ==
    {MakeTrade(sym, 90, strftime(D1), Sig("SELL", D2, 90)),
     MakeTrade(sym, 90, strftime(D1), Sig("SELL", D2, 110)),
     MakeTrade(sym, 90, strftime(D1), Sig("SELL", D2, 120)),
     MakeTrade(sym, 100, strftime(D1), Sig("SELL", D2, 90))}

\* the results a caller can hand over for one symbol: the metrics of a trade
\* list, which may be empty
SymbolResults(sym) ==
    {[symbol |-> sym, result |-> CalculatePerformanceMetrics(ts)] :
        ts \in SeqsUpTo(PortfolioTrades(sym), MaxPfTrades)}

\* the mappings: every symbol absent or present, in the order of Symbols
RECURSIVE Mappings(_)
Mappings(syms) ==
    IF syms = <<>> THEN {<<>>}
    ELSE LET rest == Mappings(Tail(syms))
         IN  rest \cup {<<item>> \o m : item \in SymbolResults(Head(syms)), m \in rest}

\* get_portfolio_summary(backtest_results) is called
CallPortfolio ==
    /\ phase = "idle"
    /\ \E br \in Mappings(Symbols) : backtest_results' = br
    /\ phase' = "portfolio"
    /\ UNCHANGED <<m_trades, m_result, indicators_data, signals_data, rb_keys,
                   rb_i, portfolio>>
    /\ UNCHANGED simvars
    /\ UNCHANGED extvars

\* backtester.py:134-168: the body and the return
ReturnPortfolio ==
    /\ phase = "portfolio"
    /\ portfolio' = GetPortfolioSummary(backtest_results)
    /\ phase' = "portfolio_done"
    /\ UNCHANGED <<m_trades, m_result, indicators_data, signals_data, rb_keys,
                   rb_i, backtest_results>>
    /\ UNCHANGED simvars
    /\ UNCHANGED extvars

NextPortfolio ==
    \/ CallPortfolio
    \/ ReturnPortfolio

SpecPortfolio == Init /\ [][NextPortfolio]_vars

PortfolioDone == phase = "portfolio_done"

\* the sum of one field of the results of a mapping
RECURSIVE SumItems(_, _)
SumItems(br, field) ==
    IF br = <<>> THEN 0 ELSE br[1].result[field] + SumItems(Tail(br), field)

\* the pooled trades, as (item, trade) index pairs
Pool(br) ==
    UNION {{<<i, k>> : k \in 1..Len(br[i].result.trades)} : i \in 1..Len(br)}

ReturnAt(br, p) == br[p[1]].result.trades[p[2]].pnl_pct

\* the sum over the pool of the returns (power 1) or their squares (power 2)
RECURSIVE PoolSum(_, _, _)
PoolSum(br, P, power) ==
    IF P = {} THEN RatZero
    ELSE LET p == CHOOSE x \in P : TRUE
             x == ReturnAt(br, p)
         IN  RatAdd(IF power = 1 THEN x ELSE RatMul(x, x),
                    PoolSum(br, P \ {p}, power))

TradesOf(sym, pairs) ==
    [i \in 1..Len(pairs) |->
        MakeTrade(sym, pairs[i][1], strftime(D1), Sig("SELL", D2, pairs[i][2]))]

----------------------------------------------------------------------------
(* C14 *)

\* one symbol netting +50 in 2 trades, one netting -10 in 3 trades
C14_Scenario ==
    <<[symbol |-> "A",
       result |-> CalculatePerformanceMetrics(TradesOf("A", <<<<90, 110>>, <<90, 120>>>>))],
      [symbol |-> "B",
       result |-> CalculatePerformanceMetrics(
                      TradesOf("B", <<<<100, 90>>, <<90, 90>>, <<90, 90>>>>))]>>

C14_Pooled ==
    (PortfolioDone /\ portfolio # None) =>
        /\ portfolio.total_trades = SumItems(backtest_results, "total_trades")
        /\ portfolio.total_pnl = SumItems(backtest_results, "total_pnl")
        /\ portfolio.win_rate.den > 0
        /\ portfolio.win_rate.num * portfolio.total_trades
               = SumItems(backtest_results, "winning_trades") * 100
                     * portfolio.win_rate.den

C14_Result ==
    (PortfolioDone /\ backtest_results = C14_Scenario) =>
        /\ portfolio # None
        /\ portfolio.total_pnl = 40
        /\ portfolio.total_trades = 5
        /\ portfolio.win_rate = [num |-> 40, den |-> 1]

\* C14: get_portfolio_summary works on the pool of all symbols' trades:
\* total_trades and total_pnl are the sums of the per-symbol values and
\* win_rate is pooled winners / pooled trades * 100; symbols netting +50 in 2
\* trades and -10 in 3 trades give total_pnl 40, total_trades 5.
C14_PortfolioIsPooled == C14_Pooled /\ C14_Result

\* the scenario was summarised; the mean of its two win rates would be 50
C14_Witness ==
    /\ PortfolioDone
    /\ backtest_results = C14_Scenario
    /\ backtest_results[1].result.win_rate = [num |-> 100, den |-> 1]
    /\ backtest_results[2].result.win_rate = RatZero
    /\ portfolio.total_pnl = 40

----------------------------------------------------------------------------
(* C15 *)

NoTradeAtAll(br) == \A i \in 1..Len(br) : br[i].result.trades = <<>>

\* C15: get_portfolio_summary returns None when the mapping is empty or no
\* symbol in it has any trade, and a record otherwise.
C15_AbsentSummary ==
    PortfolioDone => ((portfolio = None) <=> NoTradeAtAll(backtest_results))

\* a mapping of two symbols, neither with a trade, gave None
C15_Witness ==
    /\ PortfolioDone
    /\ Len(backtest_results) = 2
    /\ NoTradeAtAll(backtest_results)
    /\ portfolio = None

----------------------------------------------------------------------------
(* C16 *)

Contributors(br) == {i \in 1..Len(br) : br[i].result.trades # <<>>}

\* C16: symbols_traded is the number of symbols of the mapping that
\* contributed at least one trade to the pool, also when some symbol of the
\* mapping has an empty trade list.
C16_SymbolsTraded ==
    (PortfolioDone /\ portfolio # None) =>
        portfolio.symbols_traded = Cardinality(Contributors(backtest_results))

----------------------------------------------------------------------------
(* C17 *)

AllReturnsEqual(br) ==
    \A p, q \in Pool(br) : RatEq(ReturnAt(br, p), ReturnAt(br, q))

C17_Sharpe ==
    (PortfolioDone /\ portfolio # None) =>
        LET P == Pool(backtest_results)
            n == Cardinality(P)
            s1 == PoolSum(backtest_results, P, 1)
            s2 == PoolSum(backtest_results, P, 2)
            \* n^2 * variance  and  n^2 * mean^2
            nnvar == RatSub(RatMul(Rat(n, 1), s2), RatMul(s1, s1))
            nnmean2 == RatMul(s1, s1)
            sh == portfolio.sharpe_ratio
        IN  /\ sh.square.den # 0
            /\ (n < 2 \/ AllReturnsEqual(backtest_results)) => sh = SharpeZero
            /\ ~AllReturnsEqual(backtest_results) =>
                   /\ nnvar.num > 0
                   /\ sh.sign = Sign(s1.num)
                   /\ sh.square = RatMul(nnmean2, RatInv(nnvar))

----------------------------------------------------------------------------
(* run_backtest over signal lists that may be malformed *)

\* A signal is the dict the caller built: a key it lacks is a field the record
\* lacks. The value under 'price' is held in the field price when it is a
\* number and in the field price_text (its characters) when it is text.
HasPrice(signal) == "price" \in DOMAIN signal \/ "price_text" \in DOMAIN signal

IsNumber(signal) == "price" \in DOMAIN signal

IsDigit(c) == c \in Zero..(Zero + 9)

\* whether datetime.strptime(s, '%Y-%m-%d') accepts s; it raises ValueError
\* otherwise
Parseable(s) ==
    /\ Len(s) = 10
    /\ s[5] = Dash /\ s[8] = Dash
    /\ \A i \in {1, 2, 3, 4, 6, 7, 9, 10} : IsDigit(s[i])
    /\ LET y == Num(s, 1) * 1000 + Num(s, 2) * 100 + Num(s, 3) * 10 + Num(s, 4)
           m == Num(s, 6) * 10 + Num(s, 7)
           d == Num(s, 9) * 10 + Num(s, 10)
       IN  y >= 1 /\ m \in 1..12 /\ d \in 1..DaysInMonth(y, m)

\* an exception left the expression
Raised == [kind |-> "Raised"]

\* backtester.py:33-36
Locals ==
    [kind |-> "Locals", position |-> "None", entry_price |-> 0,
     entry_date |-> NoDate, trades |-> <<>>]

\* backtester.py:41-79: the loop over the sorted signals
RECURSIVE Loop(_, _, _)
Loop(symbol, st, rest) ==
    IF rest = <<>> THEN st
    ELSE LET signal == Head(rest)
         IN  IF "type" \notin DOMAIN signal THEN Raised
             ELSE IF signal.type = "BUY" /\ st.position = "None" THEN
                 IF ~HasPrice(signal) THEN Raised
                 ELSE IF ~IsNumber(signal) THEN Raised
                 ELSE Loop(symbol,
                           [kind |-> "Locals", position |-> "LONG",
                            entry_price |-> signal.price,
                            entry_date |-> signal.date, trades |-> st.trades],
                           Tail(rest))
             ELSE IF signal.type = "SELL" /\ st.position = "LONG" THEN
                 IF ~HasPrice(signal) THEN Raised
                 ELSE IF ~IsNumber(signal) THEN Raised
                 ELSE IF ~Parseable(signal.date) \/ ~Parseable(st.entry_date)
                      THEN Raised
                 ELSE Loop(symbol,
                           [kind |-> "Locals", position |-> "None",
                            entry_price |-> 0, entry_date |-> NoDate,
                            trades |-> Append(st.trades,
                                MakeTrade(symbol, st.entry_price,
                                          st.entry_date, signal))],
                           Tail(rest))
             ELSE Loop(symbol, st, Tail(rest))

ReturnValueZeroFilled(ts) == CalculatePerformanceMetrics(ts)

\* backtester.py:82-86
ReturnValue(ts) ==
    IF ts # <<>> THEN CalculatePerformanceMetrics(ts) ELSE None

\* backtester.py:33-86: the body of the try block
BacktestStockBody(symbol, data, sigs) ==
    IF \E i \in 1..Len(sigs) : "date" \notin DOMAIN sigs[i] THEN Raised
    ELSE LET end == Loop(symbol, Locals, sorted(sigs))
         IN  IF end.kind = "Raised" THEN Raised ELSE ReturnValue(end.trades)

\* the signals of the longest prefix of s the loop gets through
Survived(symbol, s) ==
    LET n == CHOOSE j \in 0..Len(s) :
                /\ Loop(symbol, Locals, SubSeq(s, 1, j)).kind # "Raised"
                /\ \A i \in (j + 1)..Len(s) :
                      Loop(symbol, Locals, SubSeq(s, 1, i)).kind = "Raised"
    IN  SubSeq(s, 1, n)

BacktestStockKeepsTrades(symbol, data, sigs) ==
    IF \E i \in 1..Len(sigs) : "date" \notin DOMAIN sigs[i] THEN None
    ELSE ReturnValue(Loop(symbol, Locals, Survived(symbol, sorted(sigs))).trades)

BacktestStockNoTry(symbol, data, sigs) == BacktestStockBody(symbol, data, sigs)

\* _backtest_stock(symbol, data, signals): the except clause turns every
\* exception of the body into None
BacktestStock(symbol, data, sigs) ==
    LET r == BacktestStockBody(symbol, data, sigs)
    IN  IF r.kind = "Raised" THEN None ELSE r

\* 'if result:' on a dict or None
Truthy(r) == r.kind # "None"

DataFrame == [kind |-> "DataFrame"]

Keys(m) == [i \in 1..Len(m) |-> m[i].symbol]

HasKey(m, k) == \E i \in 1..Len(m) : m[i].symbol = k

Get(m, k, field) == m[CHOOSE i \in 1..Len(m) : m[i].symbol = k][field]

\* line 22
Eligible(ind, sig, symbol) ==
    HasKey(sig, symbol) /\ Get(ind, symbol, "data") # None

MaxBatchLen == 2

BadDay == <<2023, 1, 0>>
BadMonthDay == <<2023, 2, 30>>
Text == <<97, 98, 99>>

GoodSignals ==
    {Sig("BUY", D1, 90), Sig("BUY", D2, 90), Sig("SELL", D1, 110),
     Sig("SELL", D2, 110), Sig("SELL", D2, 90)}

\* one signal for every way of being malformed, at an entry and at an exit
BadSignals ==
    {[date |-> strftime(D1), price |-> 90],
     [type |-> "BUY", price |-> 90],
     [type |-> "SELL", price |-> 110],
     [type |-> "BUY", date |-> strftime(D1)],
     [type |-> "SELL", date |-> strftime(D2)],
     [type |-> "BUY", date |-> strftime(D1), price_text |-> Text],
     [type |-> "SELL", date |-> strftime(D2), price_text |-> Text],
     Sig("BUY", BadDay, 90),
     Sig("SELL", BadMonthDay, 110)}

\* a trade opened and closed on one day, and a malformed signal behind it
TradeThenBad ==
    {<<Sig("BUY", D1, 90), Sig("SELL", D1, 110), b>> : b \in BadSignals}

BatchLists ==
    SeqsUpTo(GoodSignals \cup BadSignals, MaxBatchLen) \cup TradeThenBad

\* the lists of the second symbol: none, an open position, a trade given in
\* date order and out of it
OtherLists ==
    {<<>>, <<Sig("BUY", D1, 90)>>,
     <<Sig("BUY", D1, 90), Sig("SELL", D2, 110)>>,
     <<Sig("SELL", D2, 90), Sig("BUY", D1, 90)>>}

\* a mapping with the keys of syms, each absent or with a value of Values[sym]
RECURSIVE Maps(_, _, _)
Maps(syms, field, Values) ==
    IF syms = <<>> THEN {<<>>}
    ELSE LET rest == Maps(Tail(syms), field, Values)
         IN  rest \cup {<<[symbol |-> Head(syms)] @@ (field :> v)>> \o m :
                            v \in Values[Head(syms)], m \in rest}

IndicatorMaps ==
    Maps(<<"A", "B">>, "data", [x \in {"A", "B"} |-> {None, DataFrame}])
        \cup {<<[symbol |-> "B", data |-> DataFrame],
                [symbol |-> "A", data |-> DataFrame]>>}

SignalMaps ==
    Maps(<<"A", "B">>, "signals", [x \in {"A", "B"} |->
            IF x = "A" THEN BatchLists ELSE OtherLists])

\* the locals of _backtest_stock, which a batch leaves alone
simrest ==
    <<pc, signals, sorted_signals, idx, trades, position, entry_price,
      entry_date, run, arg, first_signals, first_trades, closes, opener>>

\* run_backtest(indicators_data, signals_data) is called; lines 19 and 21
CallRunBacktest ==
    /\ phase = "idle"
    /\ \E ind \in IndicatorMaps, sig \in SignalMaps :
        /\ indicators_data' = ind
        /\ signals_data' = sig
        /\ rb_keys' = Keys(ind)
    /\ rb_i' = 1
    /\ backtest_results' = EmptyMap
    /\ phase' = "run_backtest"
    /\ UNCHANGED <<m_trades, m_result, portfolio>>
    /\ UNCHANGED simvars
    /\ UNCHANGED extvars

\* line 22 is false: the symbol has no signal list or no indicator data
SkipSymbol ==
    /\ phase = "run_backtest"
    /\ rb_i <= Len(rb_keys)
    /\ ~Eligible(indicators_data, signals_data, rb_keys[rb_i])
    /\ rb_i' = rb_i + 1
    /\ UNCHANGED <<phase, m_trades, m_result, indicators_data, signals_data,
                   rb_keys, backtest_results, portfolio>>
    /\ UNCHANGED simvars
    /\ UNCHANGED extvars

\* lines 22-25 for one symbol; an exception leaving line 23 leaves
\* run_backtest as well
BacktestSymbol ==
    /\ phase = "run_backtest"
    /\ rb_i <= Len(rb_keys)
    /\ LET symbol == rb_keys[rb_i]
       IN  /\ Eligible(indicators_data, signals_data, symbol)
           /\ LET r == BacktestStock(symbol,
                                     Get(indicators_data, symbol, "data"),
                                     Get(signals_data, symbol, "signals"))
              IN  IF r.kind = "Raised"
                  THEN /\ phase' = "raised"
                       /\ UNCHANGED <<result, rb_i, backtest_results>>
                  ELSE /\ result' = r
                       /\ backtest_results' =
                            IF Truthy(r)
                            THEN Append(backtest_results,
                                        [symbol |-> symbol, result |-> r])
                            ELSE backtest_results
                       /\ rb_i' = rb_i + 1
                       /\ UNCHANGED phase
    /\ UNCHANGED <<m_trades, m_result, indicators_data, signals_data, rb_keys,
                   portfolio>>
    /\ UNCHANGED simrest
    /\ UNCHANGED extvars

\* lines 27-28
ReturnRunBacktest ==
    /\ phase = "run_backtest"
    /\ rb_i > Len(rb_keys)
    /\ phase' = "run_backtest_done"
    /\ UNCHANGED <<m_trades, m_result, indicators_data, signals_data, rb_keys,
                   rb_i, backtest_results, portfolio>>
    /\ UNCHANGED simvars
    /\ UNCHANGED extvars

\* main.py:78: the summary of the mapping run_backtest returned
SummariseBatch ==
    /\ phase = "run_backtest_done"
    /\ portfolio' = GetPortfolioSummary(backtest_results)
    /\ phase' = "batch_done"
    /\ UNCHANGED <<m_trades, m_result, indicators_data, signals_data, rb_keys,
                   rb_i, backtest_results>>
    /\ UNCHANGED simvars
    /\ UNCHANGED extvars

NextBatch ==
    \/ CallRunBacktest
    \/ SkipSymbol
    \/ BacktestSymbol
    \/ ReturnRunBacktest
    \/ SummariseBatch

SpecBatch == Init /\ [][NextBatch]_vars

\* run_backtest has returned its mapping
BatchReturned == phase \in {"run_backtest_done", "batch_done"}

\* the symbols run_backtest simulates, and those whose simulation raises
Simulated ==
    {k \in {rb_keys[i] : i \in 1..Len(rb_keys)} :
        Eligible(indicators_data, signals_data, k)}

SignalsOf(k) == Get(signals_data, k, "signals")

Failing ==
    {k \in Simulated :
        BacktestStockBody(k, DataFrame, SignalsOf(k)).kind = "Raised"}

\* the symbol the loop has just simulated, if it has
JustSimulated(k) ==
    /\ phase = "run_backtest"
    /\ rb_i > 1
    /\ rb_keys[rb_i - 1] = k
    /\ k \in Simulated

\* the entry of a symbol in a mapping, None for no entry
Entry(br, k) == IF HasKey(br, k) THEN Get(br, k, "result") ELSE None

----------------------------------------------------------------------------
(* C13 *)

WellFormed(sigs) == \A i \in 1..Len(sigs) : sigs[i] \in GoodSignals

\* some BUY comes before some SELL in date order, input order breaking ties
ClosesATrade(sigs) ==
    \E i, j \in 1..Len(sigs) :
        /\ sigs[i].type = "BUY"
        /\ sigs[j].type = "SELL"
        /\ \/ StrLess(sigs[i].date, sigs[j].date)
           \/ sigs[i].date = sigs[j].date /\ i < j

NoClosedTrade(k) ==
    /\ k \in Simulated
    /\ WellFormed(SignalsOf(k))
    /\ ~ClosesATrade(SignalsOf(k))

\* C13: a symbol whose signals close no trade gets None from _backtest_stock,
\* not a zero-filled record, and no entry in run_backtest's mapping; every
\* entry of the mapping has total_trades >= 1, so symbols_traded counts only
\* symbols with a trade.
C13_NoTradeNoEntry ==
    /\ \A k \in {"A", "B"} :
          (JustSimulated(k) /\ NoClosedTrade(k)) => result = None
    /\ BatchReturned =>
          /\ \A i \in 1..Len(backtest_results) :
                backtest_results[i].result.total_trades >= 1
          /\ \A k \in {"A", "B"} :
                NoClosedTrade(k) => ~HasKey(backtest_results, k)
    /\ (phase = "batch_done" /\ portfolio # None) =>
          /\ portfolio.symbols_traded =
                Cardinality(Contributors(backtest_results))
          /\ portfolio.symbols_traded <=
                Cardinality({k \in Simulated : ~NoClosedTrade(k)})

C13_Witness ==
    /\ phase = "batch_done"
    /\ rb_keys = <<"A", "B">>
    /\ NoClosedTrade("A")
    /\ SignalsOf("A") = <<Sig("SELL", D1, 110), Sig("BUY", D2, 90)>>
    /\ Keys(backtest_results) = <<"B">>
    /\ portfolio # None
    /\ portfolio.symbols_traded = 1

----------------------------------------------------------------------------
(* C19 *)

\* run_backtest without the signals of symbol k, and with an empty list for it
RECURSIVE RunBacktestOf(_, _, _)
RunBacktestOf(keys, ind, sig) ==
    IF keys = <<>> THEN <<>>
    ELSE LET symbol == Head(keys)
             rest == RunBacktestOf(Tail(keys), ind, sig)
         IN  IF Eligible(ind, sig, symbol)
                /\ Truthy(BacktestStock(symbol, Get(ind, symbol, "data"),
                                        Get(sig, symbol, "signals")))
             THEN <<[symbol |-> symbol,
                     result |-> BacktestStock(symbol, Get(ind, symbol, "data"),
                                              Get(sig, symbol, "signals"))]>>
                      \o rest
             ELSE rest

Without(m, k) == SelectSeq(m, LAMBDA item : item.symbol # k)

Emptied(sig, k) ==
    [i \in 1..Len(sig) |->
        IF sig[i].symbol = k THEN [symbol |-> k, signals |-> <<>>] ELSE sig[i]]

\* C19: a symbol whose signals are malformed is reported as failed: what
\* _backtest_stock returns for it differs from the None of a symbol without
\* trades, or run_backtest's outcome differs from the outcome for an empty
\* signal list.
C19_FailureReported ==
    \A k \in Failing :
        /\ JustSimulated(k) => result # None
        /\ BatchReturned =>
              backtest_results #
                  RunBacktestOf(rb_keys, indicators_data,
                                Emptied(signals_data, k))

----------------------------------------------------------------------------
(* C20 *)

\* C20: run_backtest never raises, and when the simulation of a symbol
\* fails, every other symbol has the entry, or the lack of one, that
\* run_backtest gives it for the mappings without the failing symbol.
C20_FailuresIsolated ==
    /\ phase # "raised"
    /\ BatchReturned =>
          \A f \in Failing : \A k \in {"A", "B"} \ {f} :
              Entry(backtest_results, k) =
                  Entry(RunBacktestOf(Keys(Without(indicators_data, f)),
                                      Without(indicators_data, f),
                                      Without(signals_data, f)), k)

C20_Witness ==
    /\ phase = "batch_done"
    /\ rb_keys = <<"A", "B">>
    /\ "A" \in Failing
    /\ SignalsOf("A") = <<[type |-> "BUY", date |-> strftime(D1)]>>
    /\ Keys(backtest_results) = <<"B">>
    /\ backtest_results[1].result.total_trades = 1

----------------------------------------------------------------------------
(* C22 *)

\* the statistics of a record: its keys but the tag and the trade list
StatFields(r) == DOMAIN r \ {"kind", "trades"}

\* C22: a portfolio summary carries every statistic a per-symbol result
\* carries, losing_trades among them, and every per-symbol result carries
\* avg_pnl_per_trade.
C22_SameShape ==
    (phase = "batch_done" /\ portfolio # None) =>
        \A i \in 1..Len(backtest_results) :
            /\ "losing_trades" \in DOMAIN portfolio
            /\ StatFields(backtest_results[i].result) \subseteq DOMAIN portfolio
            /\ "avg_pnl_per_trade" \in DOMAIN backtest_results[i].result

----------------------------------------------------------------------------
(* C28 *)

NotPositive(ts) == {i \in 1..Len(ts) : ts[i].pnl <= 0}

\* C28: a trade whose exit price equals its entry price has pnl 0 and is not
\* a win; losing_trades is the number of trades with pnl <= 0 and avg_loss is
\* the mean pnl of exactly those trades, the zero ones included.
C28_ZeroPnlIsALoss ==
    MetricsDone =>
        /\ \A i \in 1..Len(m_trades) :
              m_trades[i].exit_price = m_trades[i].entry_price =>
                  m_trades[i].pnl = 0 /\ ~m_trades[i].is_win
        /\ m_result.losing_trades = Cardinality(NotPositive(m_trades))
        /\ IsMeanOver(m_result.avg_loss, NotPositive(m_trades), m_trades)

\* a loss of 10 and a trade at pnl 0: two losing trades, avg_loss -5
C28_Witness ==
    /\ MetricsDone
    /\ Len(m_trades) = 2
    /\ m_trades[1].pnl = 0 - 10
    /\ m_trades[2].exit_price = m_trades[2].entry_price
    /\ m_result.losing_trades = 2
    /\ m_result.avg_loss = [num |-> 0 - 5, den |-> 1]

----------------------------------------------------------------------------
(* C26 *)

\* the least index of s from i on that holds a signal of type t, 0 if none
RECURSIVE FirstFrom(_, _, _)
FirstFrom(s, i, t) ==
    IF i > Len(s) THEN 0
    ELSE IF s[i].type = t THEN i
    ELSE FirstFrom(s, i + 1, t)

\* the pairs <<entry, exit>> of indices of s: each entry the first BUY after
\* the exit before it, each exit the first SELL after its entry
RECURSIVE Pairs(_, _)
Pairs(s, from) ==
    LET e == FirstFrom(s, from, "BUY")
        x == IF e = 0 THEN 0 ELSE FirstFrom(s, e + 1, "SELL")
    IN  IF x = 0 THEN <<>> ELSE <<<<e, x>>>> \o Pairs(s, x + 1)

CountOf(s, t) == Cardinality({i \in 1..Len(s) : s[i].type = t})

\* C26: the trades of a symbol do not overlap: no trade is entered before
\* the trade before it was exited, every trade is entered at the first BUY
\* after the SELL that closed the trade before it, and there are at most as
\* many trades as BUY signals and as SELL signals.
C26_TradesDoNotOverlap ==
    Done =>
        /\ \A k \in 1..(Len(trades) - 1) :
              ~StrLess(trades[k + 1].entry_date, trades[k].exit_date)
        /\ Len(trades) = Len(Pairs(sorted_signals, 1))
        /\ \A k \in 1..Len(trades) :
              LET p == Pairs(sorted_signals, 1)[k]
              IN  /\ trades[k].entry_date = sorted_signals[p[1]].date
                  /\ trades[k].entry_price = sorted_signals[p[1]].price
                  /\ trades[k].exit_date = sorted_signals[p[2]].date
        /\ Len(trades) <= CountOf(signals, "BUY")
        /\ Len(trades) <= CountOf(signals, "SELL")

\* two trades, the second entered on the day the first was exited
C26_Witness ==
    /\ Done
    /\ signals = <<Sig("SELL", D2, 100), Sig("BUY", D1, 100),
                   Sig("BUY", D2, 100), Sig("SELL", D3, 100)>>
    /\ Len(trades) = 2
    /\ trades[1].exit_date = strftime(D2)
    /\ trades[2].entry_date = strftime(D2)

----------------------------------------------------------------------------
(* C27 *)

\* the trades of the other symbols of the mapping
OtherTrades(k) == AllTrades(Without(backtest_results, k))

\* C27: when processing a signal of a symbol fails, _backtest_stock returns
\* None for the symbol, also when trades were closed before the failing
\* signal: the symbol has no entry in the mapping and the portfolio totals
\* are those of the other symbols.
C27_FailureDiscardsTrades ==
    \A k \in Failing :
        /\ JustSimulated(k) => result = None
        /\ BatchReturned => ~HasKey(backtest_results, k)
        /\ phase = "batch_done" =>
              IF OtherTrades(k) = <<>> THEN portfolio = None
              ELSE /\ portfolio.total_trades = Len(OtherTrades(k))
                   /\ portfolio.total_pnl = SumInt(Pnls(OtherTrades(k)))

\* a trade is closed, then a BUY without price fails; the other symbol's
\* trade is all the portfolio holds
C27_Witness ==
    /\ phase = "batch_done"
    /\ "A" \in Failing
    /\ SignalsOf("A") = <<Sig("BUY", D1, 90), Sig("SELL", D1, 110),
                          [type |-> "BUY", date |-> strftime(D1)]>>
    /\ BacktestStock("A", DataFrame, SubSeq(SignalsOf("A"), 1, 2)).total_trades = 1
    /\ Keys(backtest_results) = <<"B">>
    /\ portfolio # None
    /\ portfolio.total_trades = 1

----------------------------------------------------------------------------
(* _backtest_stock on signals that carry their indicator snapshot *)

MaxSnapLen == 3

\* the snapshot fields of signal_generator.py:48-51 and of
\* stage1/signal_generator.py:61-64
Snapshots ==
    {[rsi |-> 25, sma_20 |-> 105, sma_50 |-> 100, reason |-> "RSI oversold"],
     [rsi |-> 75, sma_20 |-> 95, sma_50 |-> 100, volume |-> 1000]}

\* the indicator frames handed over as `data`
DataFrames ==
    {[kind |-> "DataFrame", rows |-> 60], [kind |-> "DataFrame", rows |-> 120]}

Strip(signal) ==
    [type |-> signal.type, date |-> signal.date, price |-> signal.price]

\* the signals of sigs, the i-th with the snapshot d[i]
Decorated(sigs, d) == [i \in 1..Len(sigs) |-> Strip(sigs[i]) @@ d[i]]

Decorations(sigs) == [1..Len(sigs) -> Snapshots]

CallRecord(symbol, data, sigs) ==
    [symbol |-> symbol, data |-> data, signals |-> sigs,
     result |-> BacktestStock(symbol, data, sigs)]

\* a call on a signal list with snapshots
CallDecorated ==
    /\ calls = <<>>
    /\ \E sigs \in SeqsUpTo(GoodSignals, MaxSnapLen), data \in DataFrames :
          \E d \in Decorations(sigs) :
              calls' = <<CallRecord(Symbol, data, Decorated(sigs, d))>>
    /\ UNCHANGED <<simvars, aggvars, parvars, heapvars, genvars, pipevars>>

\* a second call: the same types, dates and prices, any snapshots, any frame
CallRedecorated ==
    /\ Len(calls) = 1
    /\ \E d \in Decorations(calls[1].signals), data \in DataFrames :
          calls' = Append(calls,
                      CallRecord(Symbol, data, Decorated(calls[1].signals, d)))
    /\ UNCHANGED <<simvars, aggvars, parvars, heapvars, genvars, pipevars>>

NextSnapshots ==
    \/ CallDecorated
    \/ CallRedecorated

SpecSnapshots == Init /\ [][NextSnapshots]_vars

----------------------------------------------------------------------------
(* C23 *)

\* C23: two signal lists that agree in the type, date and price of every
\* signal give the same SymbolResult, trade list included, whatever their
\* indicator snapshots and whatever indicator data is passed along.
C23_SnapshotsIgnored ==
    Len(calls) = 2 =>
        /\ [i \in 1..Len(calls[1].signals) |-> Strip(calls[1].signals[i])]
             = [i \in 1..Len(calls[2].signals) |-> Strip(calls[2].signals[i])]
        /\ calls[1].result = calls[2].result

\* one trade, every snapshot and the frame differ between the calls
C23_Witness ==
    /\ Len(calls) = 2
    /\ Len(calls[1].signals) = 2
    /\ \A i \in 1..2 : calls[1].signals[i].rsi # calls[2].signals[i].rsi
    /\ calls[1].data # calls[2].data
    /\ calls[1].result # None
    /\ calls[1].result.total_trades = 1
    /\ calls[2].result.trades[1].pnl = 20

----------------------------------------------------------------------------
(* Simulation passes of several symbols, their steps interleaved *)

MaxParLen == 2

ParSymbols == {"A", "B"}

FrameShared(symbol) == "A"

\* every call of _backtest_stock has a frame of its own for its locals
FrameOf(symbol) == symbol

\* backtester.py:33-36, before the call
NoFrame ==
    [sorted_signals |-> <<>>, idx |-> 1, trades |-> <<>>, position |-> "None",
     entry_price |-> 0, entry_date |-> NoDate]

\* the frame of the pass of a symbol, and the signal its loop is at
Frame(k) == frames[FrameOf(k)]

ParUnchanged == UNCHANGED <<simvars, snapvars, heapvars, genvars, pipevars, phase, m_trades, m_result,
                            indicators_data, rb_keys, rb_i, backtest_results,
                            portfolio>>

\* the passes of all symbols are started on their signal lists
CallParallel ==
    /\ threads = <<>>
    /\ \E sig \in [ParSymbols -> SeqsUpTo(GoodSignals, MaxParLen)] :
          signals_data' =
              <<[symbol |-> "A", signals |-> sig["A"]],
                [symbol |-> "B", signals |-> sig["B"]]>>
    /\ threads' = [k \in ParSymbols |-> [pc |-> "idle", result |-> None]]
    /\ frames' = [f \in {FrameOf(k) : k \in ParSymbols} |-> NoFrame]
    /\ ParUnchanged

\* backtester.py:33-39
PassBegin(k) ==
    /\ threads # <<>>
    /\ threads[k].pc = "idle"
    /\ frames' = [frames EXCEPT ![FrameOf(k)] =
                    [NoFrame EXCEPT !.sorted_signals =
                        sorted(Get(signals_data, k, "signals"))]]
    /\ threads' = [threads EXCEPT ![k].pc = "loop"]
    /\ UNCHANGED signals_data
    /\ ParUnchanged

PassInLoop(k) ==
    /\ threads # <<>>
    /\ threads[k].pc = "loop"
    /\ Frame(k).idx <= Len(Frame(k).sorted_signals)

\* backtester.py:42-47
PassOpenLong(k) ==
    /\ PassInLoop(k)
    /\ LET signal == Frame(k).sorted_signals[Frame(k).idx]
       IN  /\ signal.type = "BUY" /\ Frame(k).position = "None"
           /\ frames' = [frames EXCEPT ![FrameOf(k)] =
                           [@ EXCEPT !.position = "LONG",
                                     !.entry_price = signal.price,
                                     !.entry_date = signal.date,
                                     !.idx = @ + 1]]
    /\ UNCHANGED <<threads, signals_data>>
    /\ ParUnchanged

\* backtester.py:49-79
PassCloseLong(k) ==
    /\ PassInLoop(k)
    /\ LET signal == Frame(k).sorted_signals[Frame(k).idx]
       IN  /\ signal.type = "SELL" /\ Frame(k).position = "LONG"
           /\ frames' = [frames EXCEPT ![FrameOf(k)] =
                           [@ EXCEPT !.trades =
                                        Append(@, MakeTrade(k, Frame(k).entry_price,
                                                            Frame(k).entry_date, signal)),
                                     !.position = "None",
                                     !.entry_price = 0,
                                     !.entry_date = NoDate,
                                     !.idx = @ + 1]]
    /\ UNCHANGED <<threads, signals_data>>
    /\ ParUnchanged

\* backtester.py:41-49: neither branch is taken
PassSkip(k) ==
    /\ PassInLoop(k)
    /\ LET signal == Frame(k).sorted_signals[Frame(k).idx]
       IN  /\ ~(signal.type = "BUY" /\ Frame(k).position = "None")
           /\ ~(signal.type = "SELL" /\ Frame(k).position = "LONG")
    /\ frames' = [frames EXCEPT ![FrameOf(k)].idx = @ + 1]
    /\ UNCHANGED <<threads, signals_data>>
    /\ ParUnchanged

\* backtester.py:81-86
PassReturn(k) ==
    /\ threads # <<>>
    /\ threads[k].pc = "loop"
    /\ Frame(k).idx > Len(Frame(k).sorted_signals)
    /\ threads' = [threads EXCEPT ![k] =
                      [pc |-> "done", result |-> ReturnValue(Frame(k).trades)]]
    /\ UNCHANGED <<frames, signals_data>>
    /\ ParUnchanged

NextParallel ==
    \/ CallParallel
    \/ \E k \in ParSymbols : PassBegin(k)
    \/ \E k \in ParSymbols : PassOpenLong(k)
    \/ \E k \in ParSymbols : PassCloseLong(k)
    \/ \E k \in ParSymbols : PassSkip(k)
    \/ \E k \in ParSymbols : PassReturn(k)

SpecParallel == Init /\ [][NextParallel]_vars

----------------------------------------------------------------------------
(* C21 *)

PassDone(k) == threads # <<>> /\ threads[k].pc = "done"

PassStep(k) ==
    PassBegin(k) \/ PassOpenLong(k) \/ PassCloseLong(k) \/ PassSkip(k)
        \/ PassReturn(k)

\* C21: whatever the order and the interleaving of the passes, the result of
\* a symbol is the result of a pass over its own signal list run alone, and
\* no step of the pass of one symbol changes the locals of another's.
C21_Independent ==
    /\ [](\A k \in ParSymbols :
            PassDone(k) =>
                threads[k].result =
                    BacktestStock(k, DataFrame, Get(signals_data, k, "signals")))
    /\ [][\A k \in ParSymbols :
              PassStep(k) =>
                  \A j \in ParSymbols \ {k} : Frame(j)' = Frame(j)]_vars

\* A has returned its trade while B is in the middle of its pass, LONG
C21_Witness ==
    /\ PassDone("A")
    /\ threads["A"].result # None
    /\ threads["A"].result.total_trades = 1
    /\ threads["B"].pc = "loop"
    /\ Frame("B").position = "LONG"
    /\ Frame("B").idx = 2
    /\ Len(Frame("B").sorted_signals) = 2

----------------------------------------------------------------------------
(* The aggregators over a mapping whose lists and dicts are objects *)

\* Python hands lists and dicts over by reference: a trade list is a list
\* object holding the addresses of its trade dicts, and an address is an
\* index of heap.
EmptyList == [kind |-> "list", items |-> <<>>]

DictOf(v) == [kind |-> "dict", value |-> v]

\* the objects of one item of the mapping, put behind those of h
StoreResult(h, item) ==
    LET ts == item.result.trades
        n == Len(ts)
        dicts == [i \in 1..n |-> DictOf(ts[i])]
        list == [kind |-> "list", items |-> [i \in 1..n |-> Len(h) + i]]
    IN  [heap |-> h \o dicts \o <<list>>,
         item |-> [symbol |-> item.symbol,
                   result |-> [item.result EXCEPT !.trades = Len(h) + n + 1]]]

RECURSIVE StoreAll(_, _, _)
StoreAll(h, refs, br) ==
    IF br = <<>> THEN [heap |-> h, refs |-> refs]
    ELSE LET st == StoreResult(h, Head(br))
         IN  StoreAll(st.heap, Append(refs, st.item), Tail(br))

\* the trades a list object holds
TradesAt(h, a) == [j \in 1..Len(h[a].items) |-> h[h[a].items[j]].value]

\* the mapping as the caller reads it
Deref(h, refs) ==
    [i \in 1..Len(refs) |->
        [symbol |-> refs[i].symbol,
         result |-> [refs[i].result EXCEPT
                        !.trades = TradesAt(h, refs[i].result.trades)]]]

AllTradesAliased(h, refs) == [heap |-> h, ref |-> refs[1].result.trades]

\* all_trades = []  (backtester.py:139 and 172): a new list object
AllTradesInit(h, refs) == [heap |-> Append(h, EmptyList), ref |-> Len(h) + 1]

\* pd.to_datetime of a date string
Timestamp(s) == [kind |-> "Timestamp", ordinal |-> strptime(s)]

\* pd.DataFrame(all_trades): the frame copies the values of the dicts
DataFrameOf(h, a) == [kind |-> "DataFrame", rows |-> TradesAt(h, a)]

\* a second symbol of the mapping, with one trade
OtherEntry ==
    [symbol |-> "B",
     result |-> CalculatePerformanceMetrics(
                    <<MakeTrade("B", 90, strftime(D1), Sig("SELL", D2, 110))>>)]

AggNone ==
    [op |-> "none", pc |-> "none", i |-> 1, j |-> 1, all_trades |-> 0,
     df |-> 0, called |-> {}]

HeapUnchanged == UNCHANGED <<simvars, snapvars, parvars, genvars, pipevars, phase, m_trades,
                             m_result, indicators_data, signals_data, rb_keys,
                             rb_i>>

\* backtester.py:24-28: run_backtest hands its mapping to the caller
Publish ==
    /\ pc = "done"
    /\ heap = <<>>
    /\ LET br == (IF result # None
                  THEN <<[symbol |-> Symbol, result |-> result]>> ELSE <<>>)
                     \o <<OtherEntry>>
           st == StoreAll(<<>>, <<>>, br)
       IN  /\ heap' = st.heap
           /\ br_ref' = st.refs
           /\ backtest_results' = br
    /\ UNCHANGED <<agg, portfolio>>
    /\ HeapUnchanged

\* get_portfolio_summary(backtest_results) is called; line 136 is false
PfCall ==
    /\ heap # <<>>
    /\ agg.op = "none"
    /\ "summary" \notin agg.called
    /\ agg' = [agg EXCEPT !.op = "summary", !.pc = "new"]
    /\ UNCHANGED <<heap, br_ref, backtest_results, portfolio>>
    /\ HeapUnchanged

\* line 139
PfNewList ==
    /\ agg.op = "summary" /\ agg.pc = "new"
    /\ LET a == AllTradesInit(heap, br_ref)
       IN  /\ heap' = a.heap
           /\ agg' = [agg EXCEPT !.all_trades = a.ref, !.pc = "extend", !.i = 1]
    /\ UNCHANGED <<br_ref, backtest_results, portfolio>>
    /\ HeapUnchanged

\* lines 140-141, one symbol
PfExtend ==
    /\ agg.op = "summary" /\ agg.pc = "extend"
    /\ agg.i <= Len(br_ref)
    /\ heap' = [heap EXCEPT ![agg.all_trades].items =
                   @ \o heap[br_ref[agg.i].result.trades].items]
    /\ agg' = [agg EXCEPT !.i = @ + 1]
    /\ UNCHANGED <<br_ref, backtest_results, portfolio>>
    /\ HeapUnchanged

\* lines 143-168
PfReturn ==
    /\ agg.op = "summary" /\ agg.pc = "extend"
    /\ agg.i > Len(br_ref)
    /\ portfolio' =
          IF heap[agg.all_trades].items = <<>> THEN None
          ELSE Summary(Deref(heap, br_ref), TradesAt(heap, agg.all_trades))
    /\ agg' = [AggNone EXCEPT !.called = agg.called \cup {"summary"},
                              !.df = agg.df]
    /\ UNCHANGED <<heap, br_ref, backtest_results>>
    /\ HeapUnchanged

\* export_trades_to_dataframe(backtest_results) is called
ExCall ==
    /\ heap # <<>>
    /\ agg.op = "none"
    /\ "export" \notin agg.called
    /\ agg' = [agg EXCEPT !.op = "export", !.pc = "new"]
    /\ UNCHANGED <<heap, br_ref, backtest_results, portfolio>>
    /\ HeapUnchanged

\* line 172
ExNewList ==
    /\ agg.op = "export" /\ agg.pc = "new"
    /\ LET a == AllTradesInit(heap, br_ref)
       IN  /\ heap' = a.heap
           /\ agg' = [agg EXCEPT !.all_trades = a.ref, !.pc = "append",
                                 !.i = 1, !.j = 1]
    /\ UNCHANGED <<br_ref, backtest_results, portfolio>>
    /\ HeapUnchanged

\* lines 175-176, one trade
ExAppend ==
    /\ agg.op = "export" /\ agg.pc = "append"
    /\ agg.i <= Len(br_ref)
    /\ agg.j <= Len(heap[br_ref[agg.i].result.trades].items)
    /\ heap' = [heap EXCEPT ![agg.all_trades].items =
                   Append(@, heap[br_ref[agg.i].result.trades].items[agg.j])]
    /\ agg' = [agg EXCEPT !.j = @ + 1]
    /\ UNCHANGED <<br_ref, backtest_results, portfolio>>
    /\ HeapUnchanged

\* line 174: the next symbol
ExNextSymbol ==
    /\ agg.op = "export" /\ agg.pc = "append"
    /\ agg.i <= Len(br_ref)
    /\ agg.j > Len(heap[br_ref[agg.i].result.trades].items)
    /\ agg' = [agg EXCEPT !.i = @ + 1, !.j = 1]
    /\ UNCHANGED <<heap, br_ref, backtest_results, portfolio>>
    /\ HeapUnchanged

\* lines 178-179 and 184
ExDataFrame ==
    /\ agg.op = "export" /\ agg.pc = "append"
    /\ agg.i > Len(br_ref)
    /\ heap' = Append(heap,
                      IF heap[agg.all_trades].items # <<>>
                      THEN DataFrameOf(heap, agg.all_trades)
                      ELSE [kind |-> "DataFrame", rows |-> <<>>])
    /\ agg' = [agg EXCEPT !.df = Len(heap) + 1,
                          !.pc = IF heap[agg.all_trades].items # <<>>
                                 THEN "dates" ELSE "return"]
    /\ UNCHANGED <<br_ref, backtest_results, portfolio>>
    /\ HeapUnchanged

\* lines 180-181: the two date columns of the frame are replaced
ExToDatetime ==
    /\ agg.op = "export" /\ agg.pc = "dates"
    /\ heap' = [heap EXCEPT ![agg.df].rows =
                   [r \in 1..Len(@) |->
                       [@[r] EXCEPT !.entry_date = Timestamp(@),
                                    !.exit_date = Timestamp(@)]]]
    /\ agg' = [agg EXCEPT !.pc = "return"]
    /\ UNCHANGED <<br_ref, backtest_results, portfolio>>
    /\ HeapUnchanged

\* line 182 or 184
ExReturn ==
    /\ agg.op = "export" /\ agg.pc = "return"
    /\ agg' = [AggNone EXCEPT !.called = agg.called \cup {"export"},
                              !.df = agg.df]
    /\ UNCHANGED <<heap, br_ref, backtest_results, portfolio>>
    /\ HeapUnchanged

NextObjects ==
    \/ CallAnyLong
    \/ OpenLong
    \/ CloseLong
    \/ SkipSignal
    \/ Return
    \/ Publish
    \/ PfCall
    \/ PfNewList
    \/ PfExtend
    \/ PfReturn
    \/ ExCall
    \/ ExNewList
    \/ ExAppend
    \/ ExNextSymbol
    \/ ExDataFrame
    \/ ExToDatetime
    \/ ExReturn

SpecObjects == Init /\ [][NextObjects]_vars

----------------------------------------------------------------------------
(* C24 *)

\* C24: what the caller reads from the mapping of run_backtest, every
\* SymbolResult and every trade of it, is the same before, during and after
\* get_portfolio_summary and export_trades_to_dataframe, and a trade once in
\* the trade list of a pass is left as it is by the signals that follow.
C24_NeverMutated ==
    /\ [](heap # <<>> => Deref(heap, br_ref) = backtest_results)
    /\ [][pc = "loop" =>
             /\ Len(trades') >= Len(trades)
             /\ \A i \in 1..Len(trades) : trades'[i] = trades[i]]_vars

\* both aggregators have returned; the frame holds four converted dates for
\* the two trades of the first symbol and the trade of the second
C24_Witness ==
    /\ agg.op = "none"
    /\ agg.called = {"summary", "export"}
    /\ Len(backtest_results) = 2
    /\ Len(trades) = 2
    /\ Len(heap[agg.df].rows) = 3
    /\ heap[agg.df].rows[1].entry_date = Timestamp(strftime(D1))
    /\ portfolio # None
    /\ portfolio.total_trades = 3

----------------------------------------------------------------------------
(* The two signal generators over the indicator frame of one symbol *)

MaxBars == 3

rsi_oversold == 30
rsi_overbought == 70

\* the rows pandas_ta leaves: RSI below, between and above the thresholds,
\* the short average below, at and above the long one
RawRows ==
    [RSI : {25, 50, 75}, SMA_20 : {95, 100, 105}, SMA_50 : {100},
     Close : {100}, Volume : {1000}]

\* technical_indicators.py:39: np.where(df['SMA_20'] > df['SMA_50'], 1, 0)
SMACrossover(row) == IF row.SMA_20 > row.SMA_50 THEN 1 ELSE 0

\* technical_indicators.py:29-46; row i is the bar of the i-th day
CalculateIndicators(rows) ==
    [i \in 1..Len(rows) |->
        rows[i] @@ [SMA_Crossover |-> SMACrossover(rows[i]),
                    date |-> strftime(<<2023, 1, i>>)]]

MainSignal(type, current, reason) ==
    [type |-> type, date |-> current.date, price |-> current.Close,
     rsi |-> current.RSI, sma_20 |-> current.SMA_20,
     sma_50 |-> current.SMA_50, reason |-> reason]

\* signal_generator.py:36-68, from the row at index i on
RECURSIVE MainLoop(_, _)
MainLoop(data, i) ==
    IF i > Len(data) THEN <<>>
    ELSE LET current == data[i]
         IN  (IF current.RSI < rsi_oversold /\ current.SMA_Crossover = 1
              THEN <<MainSignal("BUY", current, "RSI oversold")>>
              ELSE IF current.RSI > rsi_overbought
                      /\ current.SMA_Crossover = 0 - 1
              THEN <<MainSignal("SELL", current, "RSI overbought")>>
              ELSE <<>>) \o MainLoop(data, i + 1)

\* signal_generator.py:32-70; range(1, len(data)) starts at the second row
GenerateStockSignals(symbol, data) == MainLoop(data, 2)

Stage1Signal(type, current) ==
    [date |-> current.date, type |-> type, price |-> current.Close,
     rsi |-> current.RSI, sma_20 |-> current.SMA_20,
     sma_50 |-> current.SMA_50, volume |-> current.Volume]

\* stage1/signal_generator.py:38-80
RECURSIVE Stage1Loop(_, _)
Stage1Loop(data, i) ==
    IF i > Len(data) THEN <<>>
    ELSE LET current == data[i]
             previous == data[i - 1]
             buy_condition ==
                 /\ current.RSI < rsi_oversold
                 /\ previous.SMA_Crossover = 0
                 /\ current.SMA_Crossover = 1
             sell_condition ==
                 /\ current.RSI > rsi_overbought
                 /\ previous.SMA_Crossover = 1
                 /\ current.SMA_Crossover = 0
         IN  (IF buy_condition THEN <<Stage1Signal("BUY", current)>>
              ELSE IF sell_condition THEN <<Stage1Signal("SELL", current)>>
              ELSE <<>>) \o Stage1Loop(data, i + 1)

\* stage1/signal_generator.py:33-85
GenerateStockSignalsStage1(symbol, data) == Stage1Loop(data, 2)

GenUnchanged == UNCHANGED <<simvars, aggvars, snapvars, parvars, heapvars,
                            pipevars>>

\* the indicator frame of a symbol is computed
CallCalculateIndicators ==
    /\ bars = <<>>
    /\ \E rows \in SeqsUpTo(RawRows, MaxBars) \ {<<>>} :
          bars' = CalculateIndicators(rows)
    /\ UNCHANGED generated
    /\ GenUnchanged

\* the main generator runs over the frame
CallMainGenerator ==
    /\ bars # <<>>
    /\ "main" \notin generated.done
    /\ generated' = [generated EXCEPT
                        !.main = GenerateStockSignals(Symbol, bars),
                        !.done = @ \cup {"main"}]
    /\ UNCHANGED bars
    /\ GenUnchanged

\* the stage1 generator runs over the frame
CallStage1Generator ==
    /\ bars # <<>>
    /\ "stage1" \notin generated.done
    /\ generated' = [generated EXCEPT
                        !.stage1 = GenerateStockSignalsStage1(Symbol, bars),
                        !.done = @ \cup {"stage1"}]
    /\ UNCHANGED bars
    /\ GenUnchanged

NextGenerators ==
    \/ CallCalculateIndicators
    \/ CallMainGenerator
    \/ CallStage1Generator

SpecGenerators == Init /\ [][NextGenerators]_vars

----------------------------------------------------------------------------
(* C25 *)

\* a generator's output holds a signal of the type for the bar
Emits(out, type, bar) ==
    \E n \in 1..Len(out) : out[n].type = type /\ out[n].date = bar.date

\* C25: for every bar after the first, the main generator emits a BUY exactly
\* when RSI is below the oversold level with the short average above the long
\* one and a SELL exactly when RSI is above the overbought level with the
\* short average below the long one; the stage1 generator emits only for a
\* bar whose crossover flag differs from the flag of the bar before.
C25_GeneratorsEmit ==
    generated.done = {"main", "stage1"} =>
        \A i \in 2..Len(bars) :
            /\ Emits(generated.main, "BUY", bars[i]) <=>
                  (bars[i].RSI < rsi_oversold /\ bars[i].SMA_20 > bars[i].SMA_50)
            /\ Emits(generated.main, "SELL", bars[i]) <=>
                  (bars[i].RSI > rsi_overbought /\ bars[i].SMA_20 < bars[i].SMA_50)
            /\ (Emits(generated.stage1, "BUY", bars[i])
                    \/ Emits(generated.stage1, "SELL", bars[i]))
                  => bars[i].SMA_Crossover # bars[i - 1].SMA_Crossover

----------------------------------------------------------------------------
(* TradingSystem.run_complete_analysis, the ten steps of the pipeline *)

MaxPipeBars == 2

\* a pandas frame with its rows
Table(rows) == [kind |-> "DataFrame", rows |-> rows]

\* rows on which the generator buys, would sell, and does nothing
PipeRows ==
    {r \in RawRows :
        \/ r.RSI = 25 /\ r.SMA_20 = 105
        \/ r.RSI = 75 /\ r.SMA_20 = 95
        \/ r.RSI = 50 /\ r.SMA_20 = 100}

\* data_fetcher.py:44-54: a frame for each symbol that could be fetched
StockMaps ==
    Maps(Symbols, "data",
         [x \in {"A", "B"} |-> {Table(rows) : rows \in SeqsUpTo(PipeRows, MaxPipeBars)}])

\* technical_indicators.py:52-63
RECURSIVE CalculateAllIndicators(_)
CalculateAllIndicators(data_dict) ==
    IF data_dict = <<>> THEN <<>>
    ELSE LET item == Head(data_dict)
         IN  (IF item.data # None
              THEN <<[symbol |-> item.symbol,
                      data |-> Table(CalculateIndicators(item.data.rows))]>>
              ELSE <<>>) \o CalculateAllIndicators(Tail(data_dict))

\* signal_generator.py:18-30
RECURSIVE GenerateSignals(_)
GenerateSignals(ind) ==
    IF ind = <<>> THEN <<>>
    ELSE LET item == Head(ind)
             sigs == GenerateStockSignals(item.symbol, item.data.rows)
         IN  (IF item.data # None /\ item.data.rows # <<>> /\ sigs # <<>>
              THEN <<[symbol |-> item.symbol, signals |-> sigs]>>
              ELSE <<>>) \o GenerateSignals(Tail(ind))

\* technical_indicators.py:65-82
RECURSIVE GetCurrentIndicators(_)
GetCurrentIndicators(ind) ==
    IF ind = <<>> THEN <<>>
    ELSE LET item == Head(ind)
             latest == item.data.rows[Len(item.data.rows)]
         IN  (IF item.data # None /\ item.data.rows # <<>>
              THEN <<[symbol |-> item.symbol,
                      indicators |-> [rsi |-> latest.RSI,
                                      sma_20 |-> latest.SMA_20,
                                      sma_50 |-> latest.SMA_50,
                                      price |-> latest.Close,
                                      volume |-> latest.Volume,
                                      sma_crossover |-> latest.SMA_Crossover,
                                      date |-> latest.date]]>>
              ELSE <<>>) \o GetCurrentIndicators(Tail(ind))

\* signal_generator.py:72-103; indicators['close'] raises KeyError when the
\* record has no such key
RECURSIVE CheckCurrentSignals(_)
CheckCurrentSignals(current_indicators) ==
    IF current_indicators = <<>> THEN <<>>
    ELSE LET item == Head(current_indicators)
             indicators == item.indicators
         IN  IF \E key \in {"rsi", "sma_20", "sma_50", "close", "date"} :
                    key \notin DOMAIN indicators
             THEN Raised
             ELSE LET rest == CheckCurrentSignals(Tail(current_indicators))
                      signal(type) ==
                          <<[symbol |-> item.symbol,
                             signal |-> [type |-> type,
                                         date |-> indicators.date,
                                         price |-> indicators.close,
                                         rsi |-> indicators.rsi]]>>
                  IN  IF rest = Raised THEN Raised
                      ELSE IF indicators.rsi < rsi_oversold
                              /\ indicators.sma_20 > indicators.sma_50
                      THEN signal("BUY") \o rest
                      ELSE IF indicators.rsi > rsi_overbought
                              /\ indicators.sma_20 < indicators.sma_50
                      THEN signal("SELL") \o rest
                      ELSE rest

\* main.py:112-124: the sheets calls the step makes
SheetsCalls(br, cs, pf) ==
    (IF br # <<>> THEN <<"log_trades", "log_pnl_summary">> ELSE <<>>)
        \o (IF pf # None THEN <<"log_portfolio_summary">> ELSE <<>>)
        \o (IF cs # <<>> THEN <<"log_current_signals">> ELSE <<>>)

\* main.py:131-141
TelegramCalls(br, cs, pf) ==
    [i \in 1..Len(cs) |-> "send_signal_alert"]
        \o (IF pf # None THEN <<"send_portfolio_update">> ELSE <<>>)
        \o <<"send_daily_summary">>

\* main.py:151-178
VisualizerCalls(br, ind, sig) ==
    (IF br # <<>>
     THEN <<"plot_portfolio_performance", "plot_cumulative_returns",
            "plot_win_loss_distribution">>
     ELSE <<>>)
        \o SelectSeq([i \in 1..Len(ind) |->
                        IF HasKey(sig, ind[i].symbol) /\ ind[i].data # None
                        THEN "plot_stock_with_signals" ELSE "none"],
                     LAMBDA c : c # "none")

\* an exception raised in a step, by a collaborator or by a missing key
Fault(step, error) == [step |-> step, error |-> error]

SinkSteps == {"sheets", "telegram", "visualizations"}

EarlySteps ==
    {"fetch", "indicators", "signals", "backtest", "current", "portfolio"}

AllSteps ==
    <<"fetch", "indicators", "signals", "backtest", "current", "portfolio",
      "sheets", "telegram", "visualizations", "summary">>

\* a sink whose body is not inside a try
SinkNoTry(raised, next) == IF raised THEN "except" ELSE next

\* main.py:112/126, 131/143, 148/180: the step after a sink, whose
\* 'except Exception' only logs
SinkTry(raised, next) == next

PipeUnchanged ==
    UNCHANGED <<simvars, snapvars, parvars, heapvars, genvars, phase, m_trades,
                m_result, rb_keys, rb_i>>

\* a step outside the sinks: it raises into the handler at line 98 or goes on
Step(step, raised, next) ==
    /\ p_pc = step
    /\ p_log' = Append(p_log, step)
    /\ p_faults' = IF raised = "no" THEN p_faults
                   ELSE p_faults \cup {Fault(step, raised)}
    /\ p_pc' = IF raised = "no" THEN next ELSE "except"
    /\ PipeUnchanged

\* a sink step making the collaborator calls cs
Sink(step, cs, next) ==
    /\ p_pc = step
    /\ p_log' = Append(p_log, step)
    /\ \E raised \in BOOLEAN :
          /\ raised => cs # <<>>
          /\ p_faults' = IF raised THEN p_faults \cup {Fault(step, "Exception")}
                         ELSE p_faults
          /\ p_pc' = SinkTry(raised, next)
    /\ UNCHANGED <<p_ret, stock_data, current_signals, indicators_data,
                   signals_data, backtest_results, portfolio>>
    /\ PipeUnchanged

\* the outcomes of a collaborator call
Outcomes == {"no", "Exception"}

\* step 1, main.py:48-54
StepFetch ==
    /\ p_pc = "idle"
    /\ p_log = <<>>
    /\ \E raised \in Outcomes, sd \in StockMaps :
          /\ p_log' = <<"fetch">>
          /\ p_faults' = IF raised = "no" THEN {} ELSE {Fault("fetch", raised)}
          /\ stock_data' = IF raised = "no" THEN sd ELSE stock_data
          /\ p_pc' = IF raised # "no" THEN "except"
                     ELSE IF sd = <<>> THEN "returned" ELSE "indicators"
          /\ p_ret' = IF raised = "no" /\ sd = <<>> THEN "False" ELSE p_ret
    /\ UNCHANGED <<current_signals, indicators_data, signals_data,
                   backtest_results, portfolio>>
    /\ PipeUnchanged

\* step 2, main.py:57-62
StepIndicators ==
    \E raised \in Outcomes :
        LET value == CalculateAllIndicators(stock_data)
        IN  /\ Step("indicators", raised,
                    IF value = <<>> THEN "returned" ELSE "signals")
            /\ indicators_data' = IF raised = "no" THEN value ELSE indicators_data
            /\ p_ret' = IF raised = "no" /\ value = <<>> THEN "False" ELSE p_ret
            /\ UNCHANGED <<stock_data, current_signals, signals_data,
                           backtest_results, portfolio>>

\* step 3, main.py:66
StepSignals ==
    \E raised \in Outcomes :
        /\ Step("signals", raised, "backtest")
        /\ signals_data' = IF raised = "no" THEN GenerateSignals(indicators_data)
                           ELSE signals_data
        /\ UNCHANGED <<p_ret, stock_data, current_signals, indicators_data,
                       backtest_results, portfolio>>

\* step 4, main.py:70
StepBacktest ==
    \E raised \in Outcomes :
        /\ Step("backtest", raised, "current")
        /\ backtest_results' =
              IF raised = "no"
              THEN RunBacktestOf(Keys(indicators_data), indicators_data,
                                 signals_data)
              ELSE backtest_results
        /\ UNCHANGED <<p_ret, stock_data, current_signals, indicators_data,
                       signals_data, portfolio>>

\* step 5, main.py:74-75
StepCurrent ==
    LET value == CheckCurrentSignals(GetCurrentIndicators(indicators_data))
    IN  \E raised \in (IF value = Raised THEN {"KeyError"} ELSE {"no"})
                          \cup {"Exception"} :
            /\ Step("current", raised, "portfolio")
            /\ current_signals' = IF raised = "no" THEN value ELSE current_signals
            /\ UNCHANGED <<p_ret, stock_data, indicators_data, signals_data,
                           backtest_results, portfolio>>

\* step 6, main.py:78
StepPortfolio ==
    \E raised \in Outcomes :
        /\ Step("portfolio", raised, "sheets")
        /\ portfolio' = IF raised = "no" THEN GetPortfolioSummary(backtest_results)
                        ELSE portfolio
        /\ UNCHANGED <<p_ret, stock_data, current_signals, indicators_data,
                       signals_data, backtest_results>>

\* step 7, main.py:82 and 110-127
StepSheets ==
    Sink("sheets", SheetsCalls(backtest_results, current_signals, portfolio),
         "telegram")

\* step 8, main.py:86 and 129-144
StepTelegram ==
    Sink("telegram", TelegramCalls(backtest_results, current_signals, portfolio),
         "visualizations")

\* step 9, main.py:90 and 146-181
StepVisualizations ==
    Sink("visualizations",
         VisualizerCalls(backtest_results, indicators_data, signals_data),
         "summary")

\* step 10 and the return, main.py:93-96
StepSummary ==
    \E raised \in Outcomes :
        /\ Step("summary", raised, "returned")
        /\ p_ret' = IF raised = "no" THEN "True" ELSE p_ret
        /\ UNCHANGED <<stock_data, current_signals, indicators_data,
                       signals_data, backtest_results, portfolio>>

\* main.py:98-108: one alert is attempted, whatever it raises is dropped
Except ==
    /\ p_pc = "except"
    /\ p_log' = Append(p_log, "error_alert")
    /\ p_ret' = "False"
    /\ p_pc' = "returned"
    /\ UNCHANGED <<p_faults, stock_data, current_signals, indicators_data,
                   signals_data, backtest_results, portfolio>>
    /\ PipeUnchanged

NextPipeline ==
    \/ StepFetch
    \/ StepIndicators
    \/ StepSignals
    \/ StepBacktest
    \/ StepCurrent
    \/ StepPortfolio
    \/ StepSheets
    \/ StepTelegram
    \/ StepVisualizations
    \/ StepSummary
    \/ Except

SpecPipeline == Init /\ [][NextPipeline]_vars

----------------------------------------------------------------------------
(* C29 *)

\* the steps in which an exception was raised
RaisedIn == {f.step : f \in p_faults}

\* no collaborator raised of its own
NoneInjected == \A f \in p_faults : f.error # "Exception"

\* C29: when fetch and indicators both return non-empty data and no
\* collaborator fails, the ten steps run in order, step 5 does not raise, and
\* the call returns True.
C29_RunsToTrue ==
    (p_pc = "returned" /\ stock_data # <<>> /\ indicators_data # <<>>
        /\ NoneInjected)
        => /\ p_ret = "True"
           /\ p_log = AllSteps
           /\ "current" \notin RaisedIn

----------------------------------------------------------------------------
(* C30 *)

\* the entries of the log that are s
Count(log, s) == Len(SelectSeq(log, LAMBDA e : e = s))

\* C30: a call in which only sink steps raised has run all ten steps and
\* returns True; a call in which one of the steps 1-6 raised returns False
\* after exactly one error alert attempt and has run no sink step.
C30_SinksContained ==
    p_pc = "returned" =>
        /\ (RaisedIn # {} /\ RaisedIn \subseteq SinkSteps)
              => (p_ret = "True" /\ p_log = AllSteps)
        /\ (RaisedIn \cap EarlySteps # {})
              => /\ p_ret = "False"
                 /\ Count(p_log, "error_alert") = 1
                 /\ \A s \in SinkSteps : Count(p_log, s) = 0

\* a call has returned True although its Telegram step raised
C30_Witness ==
    /\ p_pc = "returned"
    /\ RaisedIn = {"telegram"}
    /\ p_ret = "True"
    /\ p_log = AllSteps

====
